---- MODULE Spec2Model ----
(***************************************************************************)
(* Gear-train simulator (src/routes/gears/+page.svelte): the gear          *)
(* collection, the drag state machine of the pointer handlers, the snap    *)
(* solver, the overlap test, the BFS motion propagator and the animation   *)
(* frame.  Block Blast (the puzzle page): placement, scoring, the delayed   *)
(* line clears and the piece refill.                                       *)
(*                                                                         *)
(* Numbers.  Coordinates are integer pixels.  Every comparison the source  *)
(* makes on Math.sqrt(dx*dx+dy*dy) is made here on the squared distance,   *)
(* which is exact for the even tooth counts of the palette (pitch radii    *)
(* are integers).  rpm is an exact fraction <<num, den>> in lowest terms   *)
(* where the source holds an IEEE double, and so is the angle of a gear.   *)
(* The snapped point of findSnapPosition is rounded to the nearest pixel.  *)
(***************************************************************************)
EXTENDS Integers, Sequences, FiniteSets, TLC

VARIABLES gears, nextId, selectedGearId, activeLevel, playing,
          dragging, dragGear, dragFromPalette,
          dragOffsetX, dragOffsetY, dragX, dragY,
          phase, lastOp

(* Block Blast (the second page): the board, the three piece slots, the    *)
(* selection, the scores, the drag of a piece, and the setTimeout          *)
(* callbacks that are pending.  dragAt stands for the page's dragX and     *)
(* dragY: the board cell under the point (dragX, dragY - 60), or OffBoard. *)
VARIABLES board, pieces, selectedPieceIndex, score, highScore, gameOver,
          hoverRow, hoverCol, clearingCells,
          dragPieceIndex, isDragging, dragAt,
          timers, lastPlay

gearVars == <<gears, nextId, selectedGearId, activeLevel, playing,
              dragging, dragGear, dragFromPalette,
              dragOffsetX, dragOffsetY, dragX, dragY, phase, lastOp>>

blastVars == <<board, pieces, selectedPieceIndex, score, highScore, gameOver,
               hoverRow, hoverCol, clearingCells,
               dragPieceIndex, isDragging, dragAt, timers, lastPlay>>

vars == <<gears, nextId, selectedGearId, activeLevel, playing,
          dragging, dragGear, dragFromPalette,
          dragOffsetX, dragOffsetY, dragX, dragY, phase, lastOp,
          board, pieces, selectedPieceIndex, score, highScore, gameOver,
          hoverRow, hoverCol, clearingCells,
          dragPieceIndex, isDragging, dragAt, timers, lastPlay>>

(* ----------------------------- Block Blast ----------------------------- *)
BOARD_SIZE == 8

CLEAR_DELAY == 300

REFILL_DELAY == 350

LINE_COMBO_BONUS == 10

(* null, for a cell, a slot index, a row or a column *)
null == "null"

NoIndex == -1

OffBoard == <<-1, -1>>

COLORS ==
  <<"#e74c3c", "#e67e22", "#2ecc71", "#3498db", "#9b59b6", "#f1c40f", "#1abc9c">>

T == TRUE

F == FALSE

SHAPES ==
  << <<<<T>>>>,
     <<<<T, T>>>>,
     <<<<T, T, T>>>>,
     <<<<T, T, T, T>>>>,
     <<<<T, T, T, T, T>>>>,
     <<<<T>>, <<T>>>>,
     <<<<T>>, <<T>>, <<T>>>>,
     <<<<T>>, <<T>>, <<T>>, <<T>>>>,
     <<<<T>>, <<T>>, <<T>>, <<T>>, <<T>>>>,
     <<<<T, T>>, <<T, T>>>>,
     <<<<T, T, T>>, <<T, T, T>>, <<T, T, T>>>>,
     <<<<T, F>>, <<T, F>>, <<T, T>>>>,
     <<<<F, T>>, <<F, T>>, <<T, T>>>>,
     <<<<T, T>>, <<T, F>>, <<T, F>>>>,
     <<<<T, T>>, <<F, T>>, <<F, T>>>>,
     <<<<T, T, T>>, <<F, T, F>>>>,
     <<<<F, T, F>>, <<T, T, T>>>>,
     <<<<T, F>>, <<T, T>>, <<T, F>>>>,
     <<<<F, T>>, <<T, T>>, <<F, T>>>>,
     <<<<T, T, F>>, <<F, T, T>>>>,
     <<<<F, T, T>>, <<T, T, F>>>>,
     <<<<T, F>>, <<T, T>>, <<F, T>>>>,
     <<<<F, T>>, <<T, T>>, <<T, F>>>>,
     <<<<T, T>>, <<T, F>>>>,
     <<<<T, T>>, <<F, T>>>>,
     <<<<T, F>>, <<T, T>>>>,
     <<<<F, T>>, <<T, T>>>> >>

(* a slot that holds no piece (null in the source) *)
NullPiece == [shape |-> <<>>, color |-> null]

Idx == 0..(BOARD_SIZE - 1)

createEmptyBoard == [r \in Idx |-> [c \in Idx |-> null]]

(* the cells of a shape that are true, as offsets <<r, c>> from its corner *)
ShapeCells(shape) ==
  {rc \in (0..(Len(shape) - 1)) \X (0..4) :
     rc[2] < Len(shape[rc[1] + 1]) /\ shape[rc[1] + 1][rc[2] + 1]}

(* the page before onMount has run *)
Blast0 ==
  [board |-> createEmptyBoard, pieces |-> <<>>, selectedPieceIndex |-> NoIndex,
   score |-> 0, highScore |-> 0, gameOver |-> FALSE,
   hoverRow |-> NoIndex, hoverCol |-> NoIndex, clearingCells |-> {},
   dragPieceIndex |-> NoIndex, isDragging |-> FALSE, dragAt |-> OffBoard,
   timers |-> <<>>]

BlastCur ==
  [board |-> board, pieces |-> pieces, selectedPieceIndex |-> selectedPieceIndex,
   score |-> score, highScore |-> highScore, gameOver |-> gameOver,
   hoverRow |-> hoverRow, hoverCol |-> hoverCol, clearingCells |-> clearingCells,
   dragPieceIndex |-> dragPieceIndex, isDragging |-> isDragging,
   dragAt |-> dragAt, timers |-> timers]

BlastIs(b) ==
  /\ board = b.board
  /\ pieces = b.pieces
  /\ selectedPieceIndex = b.selectedPieceIndex
  /\ score = b.score
  /\ highScore = b.highScore
  /\ gameOver = b.gameOver
  /\ hoverRow = b.hoverRow
  /\ hoverCol = b.hoverCol
  /\ clearingCells = b.clearingCells
  /\ dragPieceIndex = b.dragPieceIndex
  /\ isDragging = b.isDragging
  /\ dragAt = b.dragAt
  /\ timers = b.timers

BlastBecomes(next) ==
  \E b \in {next} :
  /\ board' = b.board
  /\ pieces' = b.pieces
  /\ selectedPieceIndex' = b.selectedPieceIndex
  /\ score' = b.score
  /\ highScore' = b.highScore
  /\ gameOver' = b.gameOver
  /\ hoverRow' = b.hoverRow
  /\ hoverCol' = b.hoverCol
  /\ clearingCells' = b.clearingCells
  /\ dragPieceIndex' = b.dragPieceIndex
  /\ isDragging' = b.isDragging
  /\ dragAt' = b.dragAt
  /\ timers' = b.timers

InBoard(r, c) == r \in Idx /\ c \in Idx

IsNullPiece(piece) == piece = NullPiece

(* pieces[index] of the source: NullPiece when the slot is null or absent  *)
PieceAt(b, index) ==
  IF index + 1 \in DOMAIN b.pieces THEN b.pieces[index + 1] ELSE NullPiece

(* variant: only the board bounds are tested, not whether the cells are   *)
(* empty                                                                   *)
canPlacePiece_BoundsOnly(b, piece, row, col) ==
  \A rc \in ShapeCells(piece.shape) : InBoard(row + rc[1], col + rc[2])

canPlacePiece(b, piece, row, col) ==
  \A rc \in ShapeCells(piece.shape) :
    /\ InBoard(row + rc[1], col + rc[2])
    /\ b.board[row + rc[1]][col + rc[2]] = null

canPieceFitAnywhere(b, piece) ==
  \E r \in Idx, c \in Idx : canPlacePiece(b, piece, r, c)

canAnyPieceFit(b) ==
  \E i \in DOMAIN b.pieces :
    ~IsNullPiece(b.pieces[i]) /\ canPieceFitAnywhere(b, b.pieces[i])

rowsToClear(brd) == {r \in Idx : \A c \in Idx : brd[r][c] # null}

colsToClear(brd) == {c \in Idx : \A r \in Idx : brd[r][c] # null}

LineScore(totalLines) ==
  totalLines * BOARD_SIZE
    + (IF totalLines > 1 THEN totalLines * LINE_COMBO_BONUS ELSE 0)

(* a pending setTimeout callback: what it will do, its delay, and the      *)
(* cells a line clear captured                                             *)
Timer(kind, delay, cells) == [kind |-> kind, delay |-> delay, cells |-> cells]

(* variant: the score of the lines is subtracted *)
checkAndClearLines_Subtracts(b) ==
  LET rows == rowsToClear(b.board)
      cols == colsToClear(b.board)
      totalLines == Cardinality(rows) + Cardinality(cols)
      toClear == {rc \in Idx \X Idx : rc[1] \in rows \/ rc[2] \in cols}
  IN IF totalLines = 0 THEN b
     ELSE [b EXCEPT !.score = @ - LineScore(totalLines),
                    !.clearingCells = toClear,
                    !.timers = Append(@, Timer("clear", CLEAR_DELAY, toClear))]

(* the synchronous part of checkAndClearLines: the bonus is scored and the *)
(* clear is left to a timer                                                *)
checkAndClearLines(b) ==
  LET rows == rowsToClear(b.board)
      cols == colsToClear(b.board)
      totalLines == Cardinality(rows) + Cardinality(cols)
      toClear == {rc \in Idx \X Idx : rc[1] \in rows \/ rc[2] \in cols}
  IN IF totalLines = 0 THEN b
     ELSE [b EXCEPT !.score = @ + LineScore(totalLines),
                    !.clearingCells = toClear,
                    !.timers = Append(@, Timer("clear", CLEAR_DELAY, toClear))]

(* the timer callback of checkAndClearLines *)
clearLines(b, toClear) ==
  checkAndClearLines(
    [b EXCEPT !.board = [r \in Idx |-> [c \in Idx |->
                           IF <<r, c>> \in toClear THEN null ELSE b.board[r][c]]],
              !.clearingCells = {}])

placePiece(b, piece, row, col) ==
  LET cells == {<<row + rc[1], col + rc[2]>> : rc \in ShapeCells(piece.shape)}
  IN checkAndClearLines(
       [b EXCEPT !.board = [r \in Idx |-> [c \in Idx |->
                              IF <<r, c>> \in cells THEN piece.color
                              ELSE b.board[r][c]]],
                 !.score = @ + Cardinality(cells)])

completePlacement(b, pieceIndex, row, col) ==
  LET piece == PieceAt(b, pieceIndex)
  IN IF IsNullPiece(piece) THEN b
     ELSE IF ~canPlacePiece(b, piece, row, col) THEN b
     ELSE LET placed == placePiece(b, piece, row, col)
              used == [placed EXCEPT !.pieces[pieceIndex + 1] = NullPiece,
                                     !.selectedPieceIndex = NoIndex]
          IN IF \A i \in DOMAIN used.pieces : IsNullPiece(used.pieces[i])
             THEN [used EXCEPT !.timers =
                     Append(@, Timer("refill", REFILL_DELAY, {}))]
             ELSE IF ~canAnyPieceFit(used)
                  THEN [used EXCEPT !.timers =
                          Append(@, Timer("end", REFILL_DELAY, {}))]
                  ELSE used

(* variant: a second tap on the selected piece keeps it selected *)
selectPiece_NoToggle(b, index) ==
  IF b.gameOver THEN b
  ELSE IF IsNullPiece(PieceAt(b, index)) THEN b
  ELSE [b EXCEPT !.selectedPieceIndex = index]

selectPiece(b, index) ==
  IF b.gameOver THEN b
  ELSE IF IsNullPiece(PieceAt(b, index)) THEN b
  ELSE [b EXCEPT !.selectedPieceIndex = IF @ = index THEN NoIndex ELSE index]

(* variant: with nothing selected the click places the piece of slot 0 *)
handleBoardClick_FirstSlot(b, row, col) ==
  IF b.gameOver THEN b
  ELSE completePlacement(
         b, IF b.selectedPieceIndex = NoIndex THEN 0 ELSE b.selectedPieceIndex,
         row, col)

handleBoardClick(b, row, col) ==
  IF b.gameOver \/ b.selectedPieceIndex = NoIndex THEN b
  ELSE completePlacement(b, b.selectedPieceIndex, row, col)

handlePiecePointerDown(b, index) ==
  IF b.gameOver \/ IsNullPiece(PieceAt(b, index)) THEN b
  ELSE [b EXCEPT !.dragPieceIndex = index, !.dragAt = OffBoard,
                 !.isDragging = FALSE]

handlePointerMove(b, at) ==
  IF b.dragPieceIndex = NoIndex THEN b
  ELSE IF at # OffBoard
       THEN [b EXCEPT !.dragAt = at, !.isDragging = TRUE,
                      !.hoverRow = at[1], !.hoverCol = at[2],
                      !.selectedPieceIndex = b.dragPieceIndex]
       ELSE [b EXCEPT !.dragAt = at, !.isDragging = TRUE,
                      !.hoverRow = NoIndex, !.hoverCol = NoIndex]

handlePointerUp(b) ==
  IF b.dragPieceIndex = NoIndex THEN b
  ELSE LET pieceIndex == b.dragPieceIndex
           piece == PieceAt(b, pieceIndex)
           done ==
             IF b.isDragging
             THEN IF /\ b.dragAt # OffBoard
                     /\ ~IsNullPiece(piece)
                     /\ canPlacePiece(b, piece, b.dragAt[1], b.dragAt[2])
                  THEN completePlacement(b, pieceIndex, b.dragAt[1], b.dragAt[2])
                  ELSE b
             ELSE selectPiece(b, pieceIndex)
       IN [done EXCEPT !.dragPieceIndex = NoIndex, !.isDragging = FALSE,
                       !.hoverRow = NoIndex, !.hoverCol = NoIndex]

endGame(b) ==
  [b EXCEPT !.gameOver = TRUE,
            !.highScore = IF b.score > @ THEN b.score ELSE @]

(* trio: the three pieces Math.random picks *)
generatePieces(b, trio) ==
  [b EXCEPT !.pieces = trio, !.selectedPieceIndex = NoIndex]

(* variant: the callback draws no pieces *)
refillPieces_DrawsNothing(b, trio) ==
  IF ~canAnyPieceFit(b) THEN endGame(b) ELSE b

(* the timer callback set when the last slot was used *)
refillPieces(b, trio) ==
  LET filled == generatePieces(b, trio)
  IN IF ~canAnyPieceFit(filled) THEN endGame(filled) ELSE filled

resetGame(b, trio) ==
  generatePieces(
    [b EXCEPT !.board = createEmptyBoard, !.score = 0, !.gameOver = FALSE,
              !.clearingCells = {}, !.dragPieceIndex = NoIndex,
              !.isDragging = FALSE], trio)

(* the gear page does not touch the Block Blast page *)
BlastIdle == BlastIs(Blast0) /\ lastPlay = [op |-> "none"]

(* ------------------------------ constants ------------------------------ *)
MODULE_ == 5
MOTOR_RPM == 60
SLOW_MOTOR_RPM == 15
SNAP_TOLERANCE == 15
MESH_EPS == 3
AXLE_EPS == 3
AXLE_SNAP_DIST == 25
canvasWidth == 800
canvasHeight == 500

(* null of selectedGearId, dragGear and dragFromPalette; excludeId -1 of a *)
(* palette drop is NoId as well (no gear has either id).                   *)
NoId == 0

(* PALETTE_ITEMS, by position in the source array (type and teeth only;    *)
(* label and color are cosmetic).                                          *)
PALETTE_ITEMS ==
  << [type |-> "motor",      teeth |-> 12],
     [type |-> "slow-motor", teeth |-> 48],
     [type |-> "sheep",      teeth |-> 20],
     [type |-> "gear",       teeth |-> 12],
     [type |-> "gear",       teeth |-> 16],
     [type |-> "gear",       teeth |-> 20],
     [type |-> "gear",       teeth |-> 24],
     [type |-> "gear",       teeth |-> 32],
     [type |-> "gear",       teeth |-> 38],
     [type |-> "gear",       teeth |-> 48],
     [type |-> "flywheel",   teeth |-> 60] >>

(* ------------------------------- bounds -------------------------------- *)
(* gears in the collection: per-handler machine, per-gesture machine *)
MaxDragGears == 2
MaxGears == 3
MaxId == 3

(* Palette entries the pointer picks up: Motor (12T), 16T, 20T.            *)
PaletteUsed == {1, 5, 6}

(* Centers the model lets a gear be committed on: a 70-80-90 triangle, so  *)
(* that 12T, 20T and 16T gears on its corners mesh pairwise.  A release    *)
(* that would commit a gear elsewhere is not taken (moves are not bounds-  *)
(* checked by the page, so centers would drift without end).               *)
Sites == { <<100, 100>>, <<180, 100>>, <<120, 167>> }

(* Pointer positions: the sites and a near miss, 4 px short of the second  *)
(* site (within snap and axle capture range of it).                        *)
Points == Sites \cup { <<176, 100>> }

(* where the pointer goes down on a palette item: outside the canvas *)
PalettePos == <<400, 540>>

(* SpecProp: gears in a layout, and a fourth center away from the others *)
MaxLayoutGears == 4
LayoutSites == Sites \cup { <<400, 300>> }

(* a pointer position that hits no gear *)
FarPoint == <<700, 400>>

(* ------------------------------ arithmetic ----------------------------- *)
Abs(a) == IF a < 0 THEN -a ELSE a

RECURSIVE Gcd(_, _)
Gcd(a, b) == IF b = 0 THEN a ELSE Gcd(b, a % b)

(* a fraction in lowest terms, den > 0 *)
Frac(n, d) == LET g == Gcd(Abs(n), Abs(d)) IN <<n \div g, d \div g>>

RECURSIVE SqrtSearch(_, _, _)
SqrtSearch(n, lo, hi) ==
  IF lo >= hi THEN lo
  ELSE LET mid == (lo + hi + 1) \div 2
       IN IF mid * mid <= n THEN SqrtSearch(n, mid, hi)
          ELSE SqrtSearch(n, lo, mid - 1)

(* floor(sqrt(n)), 0 <= n <= 10^8 *)
ISqrt(n) == SqrtSearch(n, 0, 10000)

(* a / b rounded to the nearest integer, b > 0 *)
RoundDiv(a, b) ==
  IF a >= 0 THEN (2 * a + b) \div (2 * b) ELSE -((2 * (-a) + b) \div (2 * b))

(* ------------------------------ geometry ------------------------------- *)
pitchRadius(teeth) == (teeth * MODULE_) \div 2

isMotorType(type) == type = "motor" \/ type = "slow-motor"

getMotorRpm(type) == IF type = "slow-motor" THEN SLOW_MOTOR_RPM ELSE MOTOR_RPM

meshDistance(g1, g2) == pitchRadius(g1.teeth) + pitchRadius(g2.teeth)

(* dx*dx + dy*dy: the argument of Math.sqrt in the source *)
Dist2(x1, y1, x2, y2) == (x1 - x2) * (x1 - x2) + (y1 - y2) * (y1 - y2)

actualDistance2(g1, g2) == Dist2(g1.x, g1.y, g2.x, g2.y)

(* |sqrt(d2) - ideal| < eps, for integers ideal >= eps > 0 *)
WithinOf(d2, ideal, eps) ==
  /\ (ideal - eps) * (ideal - eps) < d2
  /\ d2 < (ideal + eps) * (ideal + eps)

(* variant: the levels are not compared *)
areMeshed_AnyLevel(g1, g2) ==
  WithinOf(actualDistance2(g1, g2), meshDistance(g1, g2), MESH_EPS)

(* variant: the snap tolerance is used where the mesh epsilon belongs *)
areMeshed_SnapTolerance(g1, g2) ==
  IF g1.level # g2.level THEN FALSE
  ELSE WithinOf(actualDistance2(g1, g2), meshDistance(g1, g2), SNAP_TOLERANCE)

areMeshed(g1, g2) ==
  IF g1.level # g2.level THEN FALSE
  ELSE WithinOf(actualDistance2(g1, g2), meshDistance(g1, g2), MESH_EPS)

areAxleConnected(g1, g2) ==
  IF g1.level = g2.level THEN FALSE
  ELSE actualDistance2(g1, g2) < AXLE_EPS * AXLE_EPS

(* ------------------------------ snap logic ----------------------------- *)
NoSnap == [found |-> FALSE, x |-> 0, y |-> 0, snapTo |-> NoId, snapDist |-> 0]

(* |dist - ideal| in tenths of a pixel (Math.abs(dist - ideal)) *)
SnapDist(d2, ideal) == Abs(ISqrt(100 * d2) - 10 * ideal)

(* Math.abs(dist - ideal) < SNAP_TOLERANCE + ideal * 0.3 *)
SnapEligible(d2, ideal) ==
  /\ 100 * d2 < (13 * ideal + 10 * SNAP_TOLERANCE) * (13 * ideal + 10 * SNAP_TOLERANCE)
  /\ \/ 7 * ideal - 10 * SNAP_TOLERANCE < 0
     \/ 100 * d2 > (7 * ideal - 10 * SNAP_TOLERANCE) * (7 * ideal - 10 * SNAP_TOLERANCE)

(* dist < outerSum * 0.5 *)
TooClose(d2, outerSum) == 4 * d2 < outerSum * outerSum

(* other + (cos(angle), sin(angle)) * ideal with angle = atan2(dy, dx),    *)
(* rounded to the pixel                                                    *)
SnapPoint(other, dx, dy, ideal) ==
  LET d10 == ISqrt(100 * (dx * dx + dy * dy))
  IN <<other.x + RoundDiv(10 * ideal * dx, d10),
       other.y + RoundDiv(10 * ideal * dy, d10)>>

(* variant: gears of the other level are candidates too *)
RECURSIVE SnapLoop_AnyLevel(_, _, _, _, _, _, _, _)
SnapLoop_AnyLevel(gs, i, teeth, x, y, excludeId, level, best) ==
  IF i > Len(gs) THEN best
  ELSE
    LET other == gs[i]
        ideal == pitchRadius(teeth) + pitchRadius(other.teeth)
        dx == x - other.x
        dy == y - other.y
        d2 == dx * dx + dy * dy
        skip == \/ other.id = excludeId
                \/ ~SnapEligible(d2, ideal)
                \/ TooClose(d2, ideal)
        better == (~best.found) \/ SnapDist(d2, ideal) < best.snapDist
        p == SnapPoint(other, dx, dy, ideal)
        nb == IF skip \/ ~better THEN best
              ELSE [found |-> TRUE, x |-> p[1], y |-> p[2],
                    snapTo |-> other.id, snapDist |-> SnapDist(d2, ideal)]
    IN SnapLoop_AnyLevel(gs, i + 1, teeth, x, y, excludeId, level, nb)

RECURSIVE SnapLoop(_, _, _, _, _, _, _, _)
SnapLoop(gs, i, teeth, x, y, excludeId, level, best) ==
  IF i > Len(gs) THEN best
  ELSE
    LET other == gs[i]
        ideal == pitchRadius(teeth) + pitchRadius(other.teeth)
        dx == x - other.x
        dy == y - other.y
        d2 == dx * dx + dy * dy
        skip == \/ other.id = excludeId
                \/ other.level # level
                \/ ~SnapEligible(d2, ideal)
                \/ TooClose(d2, ideal)
        better == (~best.found) \/ SnapDist(d2, ideal) < best.snapDist
        p == SnapPoint(other, dx, dy, ideal)
        nb == IF skip \/ ~better THEN best
              ELSE [found |-> TRUE, x |-> p[1], y |-> p[2],
                    snapTo |-> other.id, snapDist |-> SnapDist(d2, ideal)]
    IN SnapLoop(gs, i + 1, teeth, x, y, excludeId, level, nb)

findSnapPosition(gs, teeth, x, y, excludeId, level) ==
  SnapLoop(gs, 1, teeth, x, y, excludeId, level, NoSnap)

NoAxle == [found |-> FALSE, x |-> 0, y |-> 0, id |-> NoId, d2 |-> 0]

RECURSIVE AxleLoop(_, _, _, _, _, _, _)
AxleLoop(gs, i, x, y, excludeId, currentLevel, best) ==
  IF i > Len(gs) THEN best
  ELSE
    LET other == gs[i]
        d2 == Dist2(x, y, other.x, other.y)
        skip == other.id = excludeId \/ other.level = currentLevel
        take == /\ d2 < AXLE_SNAP_DIST * AXLE_SNAP_DIST
                /\ (~best.found) \/ d2 < best.d2
        nb == IF skip \/ ~take THEN best
              ELSE [found |-> TRUE, x |-> other.x, y |-> other.y,
                    id |-> other.id, d2 |-> d2]
    IN AxleLoop(gs, i + 1, x, y, excludeId, currentLevel, nb)

findAxleSnapTarget(gs, x, y, excludeId, currentLevel) ==
  AxleLoop(gs, 1, x, y, excludeId, currentLevel, NoAxle)

(* dist < minDist && Math.abs(dist - meshDist) > 3, for one other gear *)
OverlapsOne(r, otherR, d2) ==
  /\ 25 * d2 < 16 * (r + otherR) * (r + otherR)
  /\ \/ d2 < (r + otherR - MESH_EPS) * (r + otherR - MESH_EPS)
     \/ d2 > (r + otherR + MESH_EPS) * (r + otherR + MESH_EPS)

wouldOverlap(gs, teeth, x, y, excludeId, level) ==
  \E i \in DOMAIN gs :
    /\ gs[i].id # excludeId
    /\ gs[i].level = level
    /\ OverlapsOne(pitchRadius(teeth), pitchRadius(gs[i].teeth),
                   Dist2(x, y, gs[i].x, gs[i].y))

(* --------------------------- BFS propagation --------------------------- *)
ZeroRpm == <<0, 1>>

(* angle of a gear: an exact fraction <<num, den>> in units of 2*pi/60000  *)
(* radians, so that a frame of dt milliseconds adds direction * rpm * dt    *)
ZeroAngle == <<0, 1>>

(* variant: the reset leaves the jammed flag *)
ResetAll_KeepJammed(gs) ==
  [i \in DOMAIN gs |-> [gs[i] EXCEPT !.rpm = ZeroRpm, !.direction = 0]]

ResetAll(gs) ==
  [i \in DOMAIN gs |->
     [gs[i] EXCEPT !.rpm = ZeroRpm, !.direction = 0, !.jammed = FALSE]]

(* the edge the adjacency build gives the pair i < j *)
LinkType(gs, i, j) ==
  IF areMeshed(gs[i], gs[j]) THEN "mesh"
  ELSE IF areAxleConnected(gs[i], gs[j]) THEN "axle"
  ELSE "none"

RECURSIVE LinksOf(_, _, _)
LinksOf(gs, k, j) ==
  IF j > Len(gs) THEN <<>>
  ELSE LET t == IF j = k THEN "none"
                ELSE IF j < k THEN LinkType(gs, j, k) ELSE LinkType(gs, k, j)
       IN (IF t = "none" THEN <<>> ELSE <<[id |-> j, type |-> t]>>)
            \o LinksOf(gs, k, j + 1)

(* adj, keyed by position in the collection (the source keys it by the    *)
(* gear's id); the nested i < j loops push the links of a gear in          *)
(* increasing position of the other gear                                   *)
Adjacency(gs) == [k \in DOMAIN gs |-> LinksOf(gs, k, 1)]

(* variant: the flag is set, speed and direction are left *)
JamGear_FlagOnly(g) == [g EXCEPT !.jammed = TRUE]

(* the three writes markJammed makes to a gear *)
JamGear(g) == [g EXCEPT !.jammed = TRUE, !.rpm = ZeroRpm, !.direction = 0]

(* the links of a gear whose other end is not in visited, one after the   *)
(* other: a gear met twice in the list is taken once                       *)
RECURSIVE FreshIds(_, _)
FreshIds(links, visited) ==
  IF links = <<>> THEN <<>>
  ELSE IF Head(links).id \in visited THEN FreshIds(Tail(links), visited)
       ELSE <<Head(links).id>>
              \o FreshIds(Tail(links), visited \cup {Head(links).id})

(* variant: a gear is put in visited when it is taken off the queue, not   *)
(* when it is put on it                                                    *)
RECURSIVE markJammedLoop_MarkOnPop(_, _)
markJammedLoop_MarkOnPop(st, adj) ==
  IF st.queue = <<>> THEN st
  ELSE
    LET id == Head(st.queue)
        seen == st.visited \cup {id}
        ids == FreshIds(adj[id], seen)
    IN markJammedLoop_MarkOnPop(
         [gs |-> [st.gs EXCEPT ![id] = JamGear(@)],
          visited |-> seen,
          queue |-> Tail(st.queue) \o ids,
          pushed |-> st.pushed \o ids], adj)

(* the while loop of markJammed; pushed is bookkeeping of the model: the   *)
(* ids in the order they were put on the queue                             *)
RECURSIVE markJammedLoop(_, _)
markJammedLoop(st, adj) ==
  IF st.queue = <<>> THEN st
  ELSE
    LET id == Head(st.queue)
        ids == FreshIds(adj[id], st.visited)
    IN markJammedLoop(
         [gs |-> [st.gs EXCEPT ![id] = JamGear(@)],
          visited |-> st.visited \cup {ids[n] : n \in DOMAIN ids},
          queue |-> Tail(st.queue) \o ids,
          pushed |-> st.pushed \o ids], adj)

markJammedRun(startId, adj, gs) ==
  markJammedLoop([gs |-> gs, visited |-> {startId}, queue |-> <<startId>>,
                  pushed |-> <<startId>>], adj)

(* variant: every gear of the collection is jammed, linked or not *)
markJammed_JamsAll(startId, adj, gs) == [i \in DOMAIN gs |-> JamGear(gs[i])]

(* variant: only the motor is jammed, no flood fill *)
markJammed_StartOnly(startId, adj, gs) == [gs EXCEPT ![startId] = JamGear(@)]

markJammed(startId, adj, gs) == markJammedRun(startId, adj, gs).gs

(* the link's expected direction and rpm, read from current at the time   *)
(* the link is processed                                                   *)
ExpectedDir(link, current) ==
  IF link.type = "mesh" THEN -current.direction ELSE current.direction

(* variant: the gear ratio upside down *)
ExpectedRpm_Inverted(link, current, neighbor) ==
  IF link.type = "mesh"
  THEN Frac(current.rpm[1] * neighbor.teeth, current.rpm[2] * current.teeth)
  ELSE current.rpm

ExpectedRpm(link, current, neighbor) ==
  IF link.type = "mesh"
  THEN Frac(current.rpm[1] * current.teeth, current.rpm[2] * neighbor.teeth)
  ELSE current.rpm

(* variant: a visited neighbor whose rpm is not the one the link expects   *)
(* is a conflict too                                                       *)
VisitLink_SpeedConflict(st, currentId, link, motorId, adj) ==
  LET current == st.gs[currentId]
      neighbor == st.gs[link.id]
      expectedDir == ExpectedDir(link, current)
      expectedRpm == ExpectedRpm(link, current, neighbor)
  IN IF link.id \in st.visited
     THEN IF neighbor.direction # expectedDir \/ neighbor.rpm # expectedRpm
          THEN [st EXCEPT !.gs = markJammed(motorId, adj, st.gs),
                          !.jamRoots = @ \cup {motorId},
                          !.floods = @ \cup
                            {markJammedRun(motorId, adj, st.gs).pushed}]
          ELSE st
     ELSE [st EXCEPT !.gs[link.id].direction = expectedDir,
                     !.gs[link.id].rpm = expectedRpm,
                     !.visited = @ \cup {link.id},
                     !.queue = Append(@, link.id),
                     !.pushes = Append(@, link.id)]

(* one iteration of "for (const link of adj.get(currentId))" *)
VisitLink(st, currentId, link, motorId, adj) ==
  LET current == st.gs[currentId]
      neighbor == st.gs[link.id]
      expectedDir == ExpectedDir(link, current)
      expectedRpm == ExpectedRpm(link, current, neighbor)
  IN IF link.id \in st.visited
     THEN IF neighbor.direction # expectedDir
          THEN [st EXCEPT !.gs = markJammed(motorId, adj, st.gs),
                          !.jamRoots = @ \cup {motorId},
                          !.floods = @ \cup
                            {markJammedRun(motorId, adj, st.gs).pushed}]
          ELSE st
     ELSE [st EXCEPT !.gs[link.id].direction = expectedDir,
                     !.gs[link.id].rpm = expectedRpm,
                     !.visited = @ \cup {link.id},
                     !.queue = Append(@, link.id),
                     !.pushes = Append(@, link.id)]

RECURSIVE VisitLinks(_, _, _, _, _)
VisitLinks(st, currentId, links, motorId, adj) ==
  IF links = <<>> THEN st
  ELSE VisitLinks(VisitLink(st, currentId, Head(links), motorId, adj),
                  currentId, Tail(links), motorId, adj)

RECURSIVE BfsLoop(_, _, _)
BfsLoop(st, motorId, adj) ==
  IF st.queue = <<>> THEN st
  ELSE LET currentId == Head(st.queue)
           popped == [st EXCEPT !.queue = Tail(@)]
       IN BfsLoop(VisitLinks(popped, currentId, adj[currentId], motorId, adj),
                  motorId, adj)

(* variant: the seed gets its rated rpm and no direction *)
SeedMotor_NoDirection(st, m) ==
  [gs |-> [st.gs EXCEPT ![m].rpm = <<getMotorRpm(st.gs[m].type), 1>>],
   visited |-> st.visited \cup {m},
   queue |-> <<m>>,
   jamRoots |-> st.jamRoots,
   pushes |-> Append(st.pushes, m),
   floods |-> st.floods]

(* seed of one motor: rated rpm, direction +1 *)
SeedMotor(st, m) ==
  [gs |-> [st.gs EXCEPT ![m].rpm = <<getMotorRpm(st.gs[m].type), 1>>,
                        ![m].direction = 1],
   visited |-> st.visited \cup {m},
   queue |-> <<m>>,
   jamRoots |-> st.jamRoots,
   pushes |-> Append(st.pushes, m),
   floods |-> st.floods]

(* variant: a motor the traversal of an earlier motor has reached is      *)
(* seeded all the same                                                     *)
RECURSIVE MotorsLoop_Reseeds(_, _, _)
MotorsLoop_Reseeds(st, m, adj) ==
  IF m > Len(st.gs) THEN st
  ELSE IF ~isMotorType(st.gs[m].type)
       THEN MotorsLoop_Reseeds(st, m + 1, adj)
       ELSE MotorsLoop_Reseeds(BfsLoop(SeedMotor(st, m), m, adj), m + 1, adj)

RECURSIVE MotorsLoop(_, _, _)
MotorsLoop(st, m, adj) ==
  IF m > Len(st.gs) THEN st
  ELSE IF ~isMotorType(st.gs[m].type) \/ m \in st.visited
       THEN MotorsLoop(st, m + 1, adj)
       ELSE MotorsLoop(BfsLoop(SeedMotor(st, m), m, adj), m + 1, adj)

(* the run of propagateMotion; jamRoots, pushes and floods are            *)
(* bookkeeping of the model: the motors from whose traversal markJammed    *)
(* was called, the ids in the order they were put on the BFS queue, and    *)
(* the push orders of the markJammed calls                                 *)
PropagateRun(gs) ==
  LET g0 == ResetAll(gs)
      adj == Adjacency(g0)
  IN MotorsLoop([gs |-> g0, visited |-> {}, queue |-> <<>>, jamRoots |-> {},
                 pushes |-> <<>>, floods |-> {}], 1, adj)

(* variant: the collection is reordered so that the motors come first *)
propagateMotion_MotorsFirst(gs) ==
  LET out == PropagateRun(gs).gs
  IN SelectSeq(out, LAMBDA g : isMotorType(g.type))
       \o SelectSeq(out, LAMBDA g : ~isMotorType(g.type))

propagateMotion(gs) == PropagateRun(gs).gs

(* --------------------------- pointer handling -------------------------- *)
(* position in gs of the gear with this id, 0 when there is none *)
IndexOf(gs, id) ==
  IF \E i \in DOMAIN gs : gs[i].id = id
  THEN CHOOSE i \in DOMAIN gs : gs[i].id = id
  ELSE 0

RECURSIVE FindGearFrom(_, _, _, _, _)
FindGearFrom(gs, i, x, y, level) ==
  IF i < 1 THEN 0
  ELSE LET g == gs[i]
           outerR == pitchRadius(g.teeth) + MODULE_
       IN IF g.level = level /\ Dist2(x, y, g.x, g.y) <= outerR * outerR
          THEN i
          ELSE FindGearFrom(gs, i - 1, x, y, level)

(* topmost gear of the active level under (x, y): its position, or 0 *)
findGearAt(gs, x, y, level) == FindGearFrom(gs, Len(gs), x, y, level)

(* variant: the mesh snap is preferred to the axle target *)
Candidate_MeshFirst(gs, teeth, x, y, excludeId, level) ==
  LET axleTarget == findAxleSnapTarget(gs, x, y, excludeId, level)
      snap == findSnapPosition(gs, teeth, x, y, excludeId, level)
  IN IF snap.found THEN <<snap.x, snap.y>>
     ELSE IF axleTarget.found THEN <<axleTarget.x, axleTarget.y>>
     ELSE <<x, y>>

(* the one position a pointer-up considers: the axle target's center, else *)
(* the mesh snap, else the raw drag position                                *)
Candidate(gs, teeth, x, y, excludeId, level) ==
  LET axleTarget == findAxleSnapTarget(gs, x, y, excludeId, level)
      snap == findSnapPosition(gs, teeth, x, y, excludeId, level)
  IN IF axleTarget.found THEN <<axleTarget.x, axleTarget.y>>
     ELSE IF snap.found THEN <<snap.x, snap.y>>
     ELSE <<x, y>>

InBounds(teeth, x, y) ==
  LET pr == pitchRadius(teeth)
  IN x > pr /\ x < canvasWidth - pr /\ y > pr /\ y < canvasHeight - pr

(* The handlers, as functions of the page state s (a record of the         *)
(* variables) to the state they leave.                                     *)
State0 ==
  [gears |-> <<>>, nextId |-> 1, selectedGearId |-> NoId, activeLevel |-> 1,
   playing |-> TRUE,
   dragging |-> FALSE, dragGear |-> NoId, dragFromPalette |-> NoId,
   dragOffsetX |-> 0, dragOffsetY |-> 0, dragX |-> 0, dragY |-> 0]

handlePalettePointerDown(s, item, pos) ==
  [s EXCEPT !.dragging = TRUE, !.dragFromPalette = item, !.dragGear = NoId,
            !.dragX = pos[1], !.dragY = pos[2],
            !.dragOffsetX = 0, !.dragOffsetY = 0]

handleCanvasPointerDown(s, pos) ==
  LET i == findGearAt(s.gears, pos[1], pos[2], s.activeLevel)
  IN IF i # 0
     THEN [s EXCEPT !.dragging = TRUE, !.dragGear = s.gears[i].id,
                    !.dragFromPalette = NoId,
                    !.dragOffsetX = pos[1] - s.gears[i].x,
                    !.dragOffsetY = pos[2] - s.gears[i].y,
                    !.dragX = pos[1] - (pos[1] - s.gears[i].x),
                    !.dragY = pos[2] - (pos[2] - s.gears[i].y),
                    !.selectedGearId = s.gears[i].id]
     ELSE [s EXCEPT !.selectedGearId = NoId]

(* variant: the dragged gear follows the pointer in the collection *)
handleCanvasPointerMove_MovesGear(s, pos) ==
  IF ~s.dragging THEN s
  ELSE IF s.dragGear # NoId
  THEN [s EXCEPT !.dragX = pos[1] - s.dragOffsetX,
                 !.dragY = pos[2] - s.dragOffsetY,
                 !.gears = [i \in DOMAIN s.gears |->
                              IF s.gears[i].id = s.dragGear
                              THEN [s.gears[i] EXCEPT
                                      !.x = pos[1] - s.dragOffsetX,
                                      !.y = pos[2] - s.dragOffsetY]
                              ELSE s.gears[i]]]
  ELSE IF s.dragFromPalette # NoId
  THEN [s EXCEPT !.dragX = pos[1], !.dragY = pos[2]]
  ELSE s

handleCanvasPointerMove(s, pos) ==
  IF ~s.dragging THEN s
  ELSE IF s.dragGear # NoId
  THEN [s EXCEPT !.dragX = pos[1] - s.dragOffsetX,
                 !.dragY = pos[2] - s.dragOffsetY]
  ELSE IF s.dragFromPalette # NoId
  THEN [s EXCEPT !.dragX = pos[1], !.dragY = pos[2]]
  ELSE s

handleGlobalPointerMove(s, pos) ==
  IF ~s.dragging THEN s
  ELSE IF s.dragGear # NoId
  THEN [s EXCEPT !.dragX = pos[1] - s.dragOffsetX,
                 !.dragY = pos[2] - s.dragOffsetY]
  ELSE [s EXCEPT !.dragX = pos[1], !.dragY = pos[2]]

(* variant: the move is committed, propagateMotion is not run *)
MoveCommit_NoPropagate(gs, id, x, y, level) ==
  LET i == IndexOf(gs, id)
  IN IF i = 0 THEN gs
     ELSE LET c == Candidate(gs, gs[i].teeth, x, y, id, level)
          IN IF ~wouldOverlap(gs, gs[i].teeth, c[1], c[2], id, level)
             THEN [gs EXCEPT ![i].x = c[1], ![i].y = c[2]]
             ELSE gs

(* variant: the move is committed without the overlap check *)
MoveCommit_AlwaysMoves(gs, id, x, y, level) ==
  LET i == IndexOf(gs, id)
  IN IF i = 0 THEN propagateMotion(gs)
     ELSE LET c == Candidate(gs, gs[i].teeth, x, y, id, level)
          IN propagateMotion([gs EXCEPT ![i].x = c[1], ![i].y = c[2]])

(* the gear collection after the move branch of handleCanvasPointerUp; the *)
(* dragged gear may have left the collection (delete or clear mid-drag):   *)
(* the write then goes to the detached object                              *)
MoveCommit(gs, id, x, y, level) ==
  LET i == IndexOf(gs, id)
  IN IF i = 0 THEN propagateMotion(gs)
     ELSE LET c == Candidate(gs, gs[i].teeth, x, y, id, level)
              moved == IF ~wouldOverlap(gs, gs[i].teeth, c[1], c[2], id, level)
                       THEN [gs EXCEPT ![i].x = c[1], ![i].y = c[2]]
                       ELSE gs
          IN propagateMotion(moved)

(* variant: only the canvas bounds are checked *)
AddAccepted_BoundsOnly(gs, item, x, y, level) ==
  LET teeth == PALETTE_ITEMS[item].teeth
      c == Candidate(gs, teeth, x, y, NoId, level)
  IN InBounds(teeth, c[1], c[2])

(* whether the palette branch of handleCanvasPointerUp places the gear *)
AddAccepted(gs, item, x, y, level) ==
  LET teeth == PALETTE_ITEMS[item].teeth
      c == Candidate(gs, teeth, x, y, NoId, level)
  IN /\ InBounds(teeth, c[1], c[2])
     /\ ~wouldOverlap(gs, teeth, c[1], c[2], NoId, level)

NewGear(gs, item, x, y, level, id) ==
  LET teeth == PALETTE_ITEMS[item].teeth
      c == Candidate(gs, teeth, x, y, NoId, level)
  IN [id |-> id, type |-> PALETTE_ITEMS[item].type, teeth |-> teeth,
      x |-> c[1], y |-> c[2], angle |-> ZeroAngle, rpm |-> ZeroRpm,
      direction |-> 0, jammed |-> FALSE, level |-> level]

handleCanvasPointerUp(s) ==
  IF ~s.dragging THEN s
  ELSE
    LET done ==
          IF s.dragGear # NoId
          THEN [s EXCEPT !.gears = MoveCommit(s.gears, s.dragGear, s.dragX,
                                              s.dragY, s.activeLevel)]
          ELSE IF s.dragFromPalette # NoId
                  /\ AddAccepted(s.gears, s.dragFromPalette, s.dragX, s.dragY,
                                 s.activeLevel)
          THEN [s EXCEPT !.gears = propagateMotion(
                             Append(s.gears,
                                    NewGear(s.gears, s.dragFromPalette, s.dragX,
                                            s.dragY, s.activeLevel, s.nextId))),
                         !.nextId = s.nextId + 1,
                         !.selectedGearId = s.nextId]
          ELSE s
    IN [done EXCEPT !.dragging = FALSE, !.dragGear = NoId,
                    !.dragFromPalette = NoId]

handleGlobalPointerUp(s) == IF ~s.dragging THEN s ELSE handleCanvasPointerUp(s)

(* ------------------------------- actions ------------------------------- *)
(* variant: the gear is removed, propagateMotion is not run *)
deleteSelected_NoPropagate(s) ==
  IF s.selectedGearId = NoId THEN s
  ELSE [s EXCEPT !.gears = SelectSeq(s.gears, LAMBDA g : g.id # s.selectedGearId),
                 !.selectedGearId = NoId]

(* variant: the selection is left on the removed gear *)
deleteSelected_KeepsSelection(s) ==
  IF s.selectedGearId = NoId THEN s
  ELSE [s EXCEPT !.gears = propagateMotion(
                     SelectSeq(s.gears, LAMBDA g : g.id # s.selectedGearId))]

deleteSelected(s) ==
  IF s.selectedGearId = NoId THEN s
  ELSE [s EXCEPT !.gears = propagateMotion(
                     SelectSeq(s.gears, LAMBDA g : g.id # s.selectedGearId)),
                 !.selectedGearId = NoId]

(* variant: the counter and the selection are reset, the gears stay *)
clearAll_KeepsGears(s) == [s EXCEPT !.selectedGearId = NoId, !.nextId = 1]

clearAll(s) == [s EXCEPT !.gears = <<>>, !.selectedGearId = NoId, !.nextId = 1]

togglePlay(s) == [s EXCEPT !.playing = ~s.playing]

AddFrac(a, b) == Frac(a[1] * b[2] + b[1] * a[2], a[2] * b[2])

(* gear.direction * rps * Math.PI * 2 * dt, dt being dtMs / 1000 *)
Turn(g, dtMs) == Frac(g.direction * g.rpm[1] * dtMs, g.rpm[2])

(* variant: a jammed gear is turned like the others *)
animate_TurnsJammed(s, dtMs) ==
  IF ~s.playing THEN s
  ELSE [s EXCEPT !.gears =
          [i \in DOMAIN s.gears |->
             [s.gears[i] EXCEPT !.angle = AddFrac(@, <<dtMs, 1>>)]]]

(* one animation frame, dtMs milliseconds after the frame before it        *)
(* (time - lastTime; 0 for the first frame); drawCanvas only reads         *)
animate(s, dtMs) ==
  IF ~s.playing THEN s
  ELSE [s EXCEPT !.gears =
          [i \in DOMAIN s.gears |->
             IF s.gears[i].direction # 0 /\ ~s.gears[i].jammed
             THEN [s.gears[i] EXCEPT !.angle = AddFrac(@, Turn(s.gears[i], dtMs))]
             ELSE s.gears[i]]]

(* variant: the level changes, the selection stays *)
setLevel_KeepsSelection(s, l) == [s EXCEPT !.activeLevel = l]

(* the L1 / L2 buttons *)
setLevel(s, l) == [s EXCEPT !.activeLevel = l, !.selectedGearId = NoId]

(* ------------------------- the page as a machine ----------------------- *)
Cur ==
  [gears |-> gears, nextId |-> nextId, selectedGearId |-> selectedGearId,
   activeLevel |-> activeLevel, dragging |-> dragging, dragGear |-> dragGear,
   dragFromPalette |-> dragFromPalette, dragOffsetX |-> dragOffsetX,
   dragOffsetY |-> dragOffsetY, dragX |-> dragX, dragY |-> dragY,
   playing |-> playing]

Becomes(next) ==
  \E s \in {next} :
  /\ gears' = s.gears
  /\ nextId' = s.nextId
  /\ selectedGearId' = s.selectedGearId
  /\ activeLevel' = s.activeLevel
  /\ dragging' = s.dragging
  /\ dragGear' = s.dragGear
  /\ dragFromPalette' = s.dragFromPalette
  /\ dragOffsetX' = s.dragOffsetX
  /\ dragOffsetY' = s.dragOffsetY
  /\ dragX' = s.dragX
  /\ dragY' = s.dragY
  /\ playing' = s.playing
  /\ phase' = "idle"
  /\ UNCHANGED blastVars

(* lastOp is a history variable, not page state: the handler that ran    *)
(* last, how it ended, which gears were jammed / turning before it, and    *)
(* the greatest id given to a gear so far                                  *)
JammedIds(gs) == {gs[i].id : i \in {k \in DOMAIN gs : gs[k].jammed}}

SpinIds(gs) == {gs[i].id : i \in {k \in DOMAIN gs : gs[k].direction # 0}}

(* the greatest id a gear has held so far *)
TopId(gs, top) ==
  LET ids == {gs[i].id : i \in DOMAIN gs} \cup {top}
  IN CHOOSE m \in ids : \A n \in ids : n <= m

Ghost(op) ==
  lastOp' = [op |-> op, jam |-> JammedIds(gears), spin |-> SpinIds(gears),
             top |-> TopId(gears', lastOp.top)]

(* how the pointer-up of the drag in s ends *)
UpKind(s) ==
  IF s.dragGear # NoId
  THEN LET i == IndexOf(s.gears, s.dragGear)
       IN IF i = 0 THEN "moveDetached"
          ELSE LET c == Candidate(s.gears, s.gears[i].teeth, s.dragX, s.dragY,
                                  s.dragGear, s.activeLevel)
               IN IF wouldOverlap(s.gears, s.gears[i].teeth, c[1], c[2],
                                  s.dragGear, s.activeLevel)
                  THEN "moveRejected" ELSE "move"
  ELSE IF s.dragFromPalette # NoId
          /\ AddAccepted(s.gears, s.dragFromPalette, s.dragX, s.dragY,
                         s.activeLevel)
  THEN "add" ELSE "addRejected"

Init ==
  /\ gears = State0.gears
  /\ nextId = State0.nextId
  /\ selectedGearId = State0.selectedGearId
  /\ activeLevel = State0.activeLevel
  /\ dragging = State0.dragging
  /\ dragGear = State0.dragGear
  /\ dragFromPalette = State0.dragFromPalette
  /\ dragOffsetX = State0.dragOffsetX
  /\ dragOffsetY = State0.dragOffsetY
  /\ dragX = State0.dragX
  /\ dragY = State0.dragY
  /\ playing = State0.playing
  /\ phase = "idle"
  /\ lastOp = [op |-> "init", jam |-> {}, spin |-> {}, top |-> 0]
  /\ BlastIdle

Centers(gs) == {<<gs[i].x, gs[i].y>> : i \in DOMAIN gs}

OnSites(gs) == Centers(gs) \subseteq Sites

(* Spec: one step per handler, in any interleaving. *)
PalettePointerDown ==
  \E item \in PaletteUsed :
    /\ Len(gears) < MaxDragGears
    /\ nextId <= MaxId
    /\ Becomes(handlePalettePointerDown(Cur, item, PalettePos))
    /\ Ghost("paletteDown")

CanvasPointerDown ==
  \E pos \in Centers(gears) \cup {FarPoint} :
    /\ Becomes(handleCanvasPointerDown(Cur, pos))
    /\ Ghost("canvasDown")

(* a pointer-move event reaches the canvas handler and then, bubbling, the *)
(* page handler                                                            *)
PointerMove ==
  \E target \in Points :
    LET pos == <<target[1] + dragOffsetX, target[2] + dragOffsetY>>
    IN /\ dragging
       /\ Becomes(handleGlobalPointerMove(handleCanvasPointerMove(Cur, pos), pos))
       /\ Ghost("pointerMove")

(* a pointer-up event reaches the canvas handler and then the page handler *)
PointerUp ==
  /\ dragging
  /\ \E nx \in {handleGlobalPointerUp(handleCanvasPointerUp(Cur))} :
       /\ OnSites(nx.gears)
       /\ Becomes(nx)
  /\ Ghost(UpKind(Cur))

DeleteSelected ==
  /\ selectedGearId # NoId
  /\ Becomes(deleteSelected(Cur))
  /\ Ghost("delete")

ClearAll ==
  /\ Becomes(clearAll(Cur))
  /\ Ghost("clear")

SetLevel ==
  \E l \in {1, 2} :
    /\ Becomes(setLevel(Cur, l))
    /\ Ghost("level")

Next ==
  \/ PalettePointerDown
  \/ CanvasPointerDown
  \/ PointerMove
  \/ PointerUp
  \/ DeleteSelected
  \/ ClearAll
  \/ SetLevel

Spec == Init /\ [][Next]_vars

(* SpecOps: one step per completed gesture (pointer-down, pointer-move,    *)
(* pointer-up) or button click.                                            *)
DropStart(s, item, target) ==
  handleCanvasPointerMove(handlePalettePointerDown(s, item, PalettePos), target)

DragStart(s, from, target) ==
  LET down == handleCanvasPointerDown(s, from)
      pos == <<target[1] + down.dragOffsetX, target[2] + down.dragOffsetY>>
  IN handleCanvasPointerMove(down, pos)

DropGesture ==
  \E item \in PaletteUsed, target \in Sites \cup {PalettePos} :
    \E held \in {DropStart(Cur, item, target)} :
      \E nx \in {handleCanvasPointerUp(held)} :
        /\ ~dragging
        /\ Len(gears) < MaxGears
        /\ nextId <= MaxId
        /\ OnSites(nx.gears)
        /\ Becomes(nx)
        /\ Ghost(UpKind(held))

DragGesture ==
  \E from \in Centers(gears) : \E target \in Sites :
    \E held \in {DragStart(Cur, from, target)} :
      \E nx \in {handleCanvasPointerUp(held)} :
        /\ ~dragging
        /\ held.dragging
        /\ OnSites(nx.gears)
        /\ Becomes(nx)
        /\ Ghost(UpKind(held))

NextOps ==
  \/ DropGesture
  \/ DragGesture
  \/ DeleteSelected
  \/ ClearAll
  \/ SetLevel

SpecOps == Init /\ [][NextOps]_vars

(* SpecProp: propagateMotion as a function of the collection.  It starts  *)
(* where a handler has edited the collection and is about to call          *)
(* propagateMotion (phase "call"): any layout without same-level overlap   *)
(* (every such layout is reached: a gear is put on any center by an axle   *)
(* snap onto a gear of the other level, which is deleted afterwards), the  *)
(* derived fields still holding what an earlier layout gave them.          *)
Placements == PaletteUsed \X LayoutSites \X {1, 2}

(* what the derived fields still hold at the call: odd positions were    *)
(* jammed in the earlier layout, even positions were spinning              *)
StaleOf(i) ==
  IF i % 2 = 1
  THEN [rpm |-> ZeroRpm, direction |-> 0, jammed |-> TRUE]
  ELSE [rpm |-> <<MOTOR_RPM, 1>>, direction |-> 1, jammed |-> FALSE]

GearOf(pl, id) ==
  [id |-> id, type |-> PALETTE_ITEMS[pl[1]].type,
   teeth |-> PALETTE_ITEMS[pl[1]].teeth, x |-> pl[2][1], y |-> pl[2][2],
   rpm |-> StaleOf(id).rpm, direction |-> StaleOf(id).direction,
   jammed |-> StaleOf(id).jammed, level |-> pl[3], angle |-> ZeroAngle]

NoOverlap(f) ==
  \A i, j \in DOMAIN f :
    i < j /\ f[i][3] = f[j][3] =>
      ~OverlapsOne(pitchRadius(PALETTE_ITEMS[f[i][1]].teeth),
                   pitchRadius(PALETTE_ITEMS[f[j][1]].teeth),
                   Dist2(f[i][2][1], f[i][2][2], f[j][2][1], f[j][2][2]))

InitLayout ==
  /\ \E n \in 1..MaxLayoutGears :
       \E f \in [1..n -> Placements] :
         /\ NoOverlap(f)
         /\ gears = [i \in 1..n |-> GearOf(f[i], i)]
         /\ nextId = n + 1
  /\ selectedGearId = NoId
  /\ activeLevel = 1
  /\ dragging = FALSE
  /\ dragGear = NoId
  /\ dragFromPalette = NoId
  /\ dragOffsetX = 0
  /\ dragOffsetY = 0
  /\ dragX = 0
  /\ dragY = 0
  /\ playing = TRUE
  /\ phase = "call"
  /\ lastOp = [op |-> "init", jam |-> {}, spin |-> {}, top |-> 0]
  /\ BlastIdle

Propagate ==
  /\ phase = "call"
  /\ Becomes([Cur EXCEPT !.gears = propagateMotion(gears)])
  /\ Ghost("propagate")

NextProp == Propagate

SpecProp == InitLayout /\ [][NextProp]_vars

(* ------------------------------ properties ----------------------------- *)
(* The coupling graph, read off the positions: i and j are linked when     *)
(* they mesh or share an axle.                                             *)
Linked(gs, i, j) ==
  i # j /\ (areMeshed(gs[i], gs[j]) \/ areAxleConnected(gs[i], gs[j]))

RECURSIVE Closure(_, _)
Closure(gs, set) ==
  LET more == set \cup {j \in DOMAIN gs : \E i \in set : Linked(gs, i, j)}
  IN IF more = set THEN set ELSE Closure(gs, more)

Component(gs, i) == Closure(gs, {i})

Powered(gs, i) == \E m \in Component(gs, i) : isMotorType(gs[m].type)

AtRest(g) == g.rpm = ZeroRpm /\ g.direction = 0

Degree(gs, i) == Cardinality({j \in DOMAIN gs : Linked(gs, i, j)})

(* the three gears mesh pairwise *)
Triangle(gs, i, j, k) ==
  /\ areMeshed(gs[i], gs[j])
  /\ areMeshed(gs[j], gs[k])
  /\ areMeshed(gs[i], gs[k])

(* C1: every jammed gear has rpm 0 and direction 0, also a gear the BFS    *)
(* reaches after markJammed has run.                                       *)
C1_JammedAtRest ==
  phase = "idle" => \A i \in DOMAIN gears : gears[i].jammed => AtRest(gears[i])

(* a jammed gear hanging off the jammed cycle by its only link, away from  *)
(* the motor: the traversal assigns it after markJammed has run            *)
C1_Witness ==
  /\ phase = "idle"
  /\ \E i \in DOMAIN gears :
       /\ gears[i].jammed
       /\ Degree(gears, i) = 1
       /\ ~isMotorType(gears[i].type)
       /\ \A m \in DOMAIN gears :
            isMotorType(gears[m].type) => ~Linked(gears, i, m)

(* C2: when a traversal finds a direction conflict, the whole component of *)
(* its motor is jammed and at rest; the jammed flag is uniform over every  *)
(* component; three pairwise meshed gears with a motor are all jammed.     *)
C2_ConflictJamsComponent ==
  phase = "idle" =>
    /\ \A m \in PropagateRun(gears).jamRoots :
         \A j \in Component(gears, m) : gears[j].jammed /\ AtRest(gears[j])
    /\ \A i \in DOMAIN gears :
         \A j \in Component(gears, i) : gears[j].jammed = gears[i].jammed
    /\ \A i, j, k \in DOMAIN gears :
         Triangle(gears, i, j, k) /\ isMotorType(gears[i].type) =>
           gears[i].jammed /\ gears[j].jammed /\ gears[k].jammed

(* a conflict was found, and the component holds a gear off the cycle *)
C2_Witness ==
  /\ phase = "idle"
  /\ \E m \in PropagateRun(gears).jamRoots :
       /\ Cardinality(Component(gears, m)) = 4
       /\ \E j \in Component(gears, m) : Degree(gears, j) = 1 /\ gears[j].jammed

(* C3: after propagateMotion a gear with no path to a motor is at rest and *)
(* not jammed, whatever it held before and whatever other components do.   *)
C3_UnpoweredAtRest ==
  phase = "idle" =>
    \A i \in DOMAIN gears :
      ~Powered(gears, i) => AtRest(gears[i]) /\ ~gears[i].jammed

(* unpowered gears that were jammed (odd position) and turning (even       *)
(* position) before the call, beside a jammed component                    *)
C3_Witness ==
  /\ phase = "idle"
  /\ \E i \in DOMAIN gears : ~Powered(gears, i) /\ i % 2 = 1
  /\ \E i \in DOMAIN gears : gears[i].jammed

(* C4: in a component with a motor that is not jammed, every link obeys    *)
(* the coupling law: a mesh reverses the direction and keeps rpm * teeth,  *)
(* an axle keeps direction and rpm.                                        *)
SameSurfaceSpeed(a, b) ==
  a.rpm[1] * a.teeth * b.rpm[2] = b.rpm[1] * b.teeth * a.rpm[2]

C4_EveryEdgeCoupled ==
  phase = "idle" =>
    \A i, j \in DOMAIN gears :
      Linked(gears, i, j) /\ Powered(gears, i) /\ ~gears[i].jammed =>
        IF areMeshed(gears[i], gears[j])
        THEN /\ gears[j].direction = -gears[i].direction
             /\ SameSurfaceSpeed(gears[i], gears[j])
        ELSE /\ gears[j].direction = gears[i].direction
             /\ gears[j].rpm = gears[i].rpm

(* C5: in a tree component with one motor, a gear turns as the path from   *)
(* the motor says: the direction flips at each mesh, the rpm is multiplied *)
(* by teeth_prev / teeth_next at each mesh and kept at each axle.          *)
Links(gs, set) ==
  {e \in SUBSET set : \E i, j \in e : e = {i, j} /\ Linked(gs, i, j)}

IsTree(gs, set) == Cardinality(Links(gs, set)) = Cardinality(set) - 1

RatedRpm(type) == IF type = "slow-motor" THEN 15 ELSE 60

RECURSIVE AlongPath(_, _, _, _, _, _)
AlongPath(gs, at, from, target, dir, rpm) ==
  IF at = target THEN {[direction |-> dir, rpm |-> rpm]}
  ELSE UNION { AlongPath(gs, n, at, target,
                         IF areMeshed(gs[at], gs[n]) THEN -dir ELSE dir,
                         IF areMeshed(gs[at], gs[n])
                         THEN Frac(rpm[1] * gs[at].teeth, rpm[2] * gs[n].teeth)
                         ELSE rpm)
               : n \in {k \in DOMAIN gs : k # from /\ Linked(gs, at, k)} }

Motors(gs, set) == {m \in set : isMotorType(gs[m].type)}

SingleMotorTree(gs, m) ==
  /\ isMotorType(gs[m].type)
  /\ Motors(gs, Component(gs, m)) = {m}
  /\ IsTree(gs, Component(gs, m))

TwoGearExample ==
  LET pair == propagateMotion(
        << [id |-> 1, type |-> "motor", teeth |-> 12, x |-> 100, y |-> 100,
            rpm |-> ZeroRpm, direction |-> 0, jammed |-> FALSE, level |-> 1],
           [id |-> 2, type |-> "gear", teeth |-> 24, x |-> 190, y |-> 100,
            rpm |-> ZeroRpm, direction |-> 0, jammed |-> FALSE, level |-> 1] >>)
  IN pair[2].rpm = <<30, 1>> /\ pair[2].direction = -1

C5_TreeFollowsPath ==
  phase = "idle" =>
    /\ \A m \in DOMAIN gears :
         SingleMotorTree(gears, m) =>
           \A g \in Component(gears, m) :
             AlongPath(gears, m, 0, g, 1, <<RatedRpm(gears[m].type), 1>>)
               = {[direction |-> gears[g].direction, rpm |-> gears[g].rpm]}
    /\ TwoGearExample

(* a tree of four gears with mesh and axle links, one gear three links     *)
(* from the motor                                                          *)
C5_Witness ==
  /\ phase = "idle"
  /\ \E m \in DOMAIN gears :
       /\ SingleMotorTree(gears, m)
       /\ Cardinality(Component(gears, m)) = 4
       /\ \E i, j \in Component(gears, m) :
            areMeshed(gears[i], gears[j]) /\ gears[i].teeth # gears[j].teeth
       /\ \E i, j \in Component(gears, m) : areAxleConnected(gears[i], gears[j])
       /\ \E g \in Component(gears, m) :
            Degree(gears, g) = 1 /\ ~Linked(gears, g, m) /\ gears[g].direction = -1

(* C6: after every handler the derived fields are what the propagator    *)
(* computes from a clean reset of the current collection; nothing of an    *)
(* earlier layout is left in them.                                         *)
Fresh(gs) ==
  [i \in DOMAIN gs |->
     [gs[i] EXCEPT !.rpm = ZeroRpm, !.direction = 0, !.jammed = FALSE]]

C6_DerivedFromLayout == gears = propagateMotion(Fresh(gears))

(* a gear that was jammed before the last move or delete turns again *)
C6_Witness ==
  /\ lastOp.op \in {"move", "delete"}
  /\ \E i \in DOMAIN gears :
       /\ gears[i].id \in lastOp.jam
       /\ ~gears[i].jammed
       /\ gears[i].direction # 0

(* C7: no two gears of one level are closer than 0.8 times the sum of     *)
(* their pitch radii, unless the distance is within 3 of that sum.         *)
TooNear(teethA, teethB, d2) ==
  LET sum == pitchRadius(teethA) + pitchRadius(teethB)
  IN /\ 25 * d2 < 16 * sum * sum
     /\ d2 < (sum - 3) * (sum - 3) \/ d2 > (sum + 3) * (sum + 3)

C7_NoSameLevelOverlap ==
  \A i, j \in DOMAIN gears :
    i < j /\ gears[i].level = gears[j].level =>
      ~TooNear(gears[i].teeth, gears[j].teeth, actualDistance2(gears[i], gears[j]))

(* C8: a palette drop whose candidate position overlaps a gear of the      *)
(* level or is out of the canvas adds nothing: the collection, nextId and  *)
(* the selection are unchanged.                                            *)
TooNearSameLevel(gs, teeth, c, excludeId, level) ==
  \E i \in DOMAIN gs :
    /\ gs[i].id # excludeId
    /\ gs[i].level = level
    /\ TooNear(teeth, gs[i].teeth, Dist2(c[1], c[2], gs[i].x, gs[i].y))

OutOfCanvas(teeth, c) ==
  LET pr == pitchRadius(teeth)
  IN c[1] <= pr \/ c[1] >= canvasWidth - pr \/ c[2] <= pr \/ c[2] >= canvasHeight - pr

DropIsRejected ==
  LET teeth == PALETTE_ITEMS[dragFromPalette].teeth
      c == Candidate(gears, teeth, dragX, dragY, NoId, activeLevel)
  IN TooNearSameLevel(gears, teeth, c, NoId, activeLevel) \/ OutOfCanvas(teeth, c)

C8_RejectedDropChangesNothing ==
  [][(/\ dragging /\ ~dragging'
      /\ dragGear = NoId /\ dragFromPalette # NoId
      /\ DropIsRejected)
     => (gears' = gears /\ nextId' = nextId /\ selectedGearId' = selectedGearId)]_vars

(* a drop released on the center of a turning gear of the active level     *)
(* was rejected                                                            *)
C8_Witness ==
  /\ lastOp.op = "addRejected"
  /\ \E i \in DOMAIN gears :
       /\ gears[i].level = activeLevel
       /\ gears[i].x = dragX /\ gears[i].y = dragY
       /\ gears[i].direction # 0

(* C9: a gear drag released where the overlap check fails leaves the       *)
(* dragged gear where it was and every gear's rpm, direction and jammed    *)
(* as they were.                                                           *)
MoveIsRejected ==
  LET teeth == gears[IndexOf(gears, dragGear)].teeth
      c == Candidate(gears, teeth, dragX, dragY, dragGear, activeLevel)
  IN TooNearSameLevel(gears, teeth, c, dragGear, activeLevel)

C9_RejectedMoveChangesNothing ==
  [][(/\ dragging /\ ~dragging'
      /\ dragGear # NoId /\ IndexOf(gears, dragGear) # 0
      /\ MoveIsRejected)
     => gears' = gears]_vars

(* a rejected move in a layout of two turning gears *)
C9_Witness ==
  /\ lastOp.op = "moveRejected"
  /\ Len(gears) = 2
  /\ SpinIds(gears) = {gears[1].id, gears[2].id}
  /\ lastOp.spin = SpinIds(gears)

(* C10: after deleteSelected every gear left without a path to a motor is  *)
(* at rest and not jammed, whether it was turning or jammed before; the    *)
(* gears still driven by a motor turn unless their component is jammed.    *)
C10_DeleteRestsCutOff ==
  [][lastOp'.op = "delete" =>
       \A i \in DOMAIN gears' :
         /\ ~Powered(gears', i) => AtRest(gears'[i]) /\ ~gears'[i].jammed
         /\ Powered(gears', i) /\ ~gears'[i].jammed => gears'[i].direction # 0]_vars

(* deleting left a gear unpowered that was jammed before *)
C10_Witness ==
  /\ lastOp.op = "delete"
  /\ \E i \in DOMAIN gears :
       /\ gears[i].id \in lastOp.jam
       /\ ~Powered(gears, i)
       /\ AtRest(gears[i]) /\ ~gears[i].jammed

(* C11: propagateMotion is idempotent, a second run on its own result     *)
(* changes nothing, and a run changes no gear's id, kind, teeth, center or *)
(* level, nor the membership or order of the collection.                   *)
Structural(g) ==
  [id |-> g.id, type |-> g.type, teeth |-> g.teeth, x |-> g.x, y |-> g.y,
   level |-> g.level]

SameStructure(a, b) ==
  /\ Len(a) = Len(b)
  /\ \A i \in DOMAIN a : Structural(a[i]) = Structural(b[i])

IdsOf(gs) == {gs[i].id : i \in DOMAIN gs}

C12_IdsNeverReused ==
  [][\A id \in IdsOf(gears') \ IdsOf(gears) : id > lastOp.top]_vars

(* C13: propagateMotion terminates; a run puts each gear on the BFS queue  *)
(* at most once over all its motors, and each flood fill of markJammed     *)
(* puts each gear on its queue at most once.                               *)
NoRepeat(seq) == \A a, b \in DOMAIN seq : a # b => seq[a] # seq[b]

C13_EachGearQueuedOnce ==
  LET run == PropagateRun(gears)
  IN /\ NoRepeat(run.pushes)
     /\ Len(run.pushes) <= Len(gears)
     /\ \A f \in run.floods : NoRepeat(f) /\ Len(f) <= Len(gears)

(* two motors with their own components, one of them jammed by a cycle of  *)
(* three gears                                                             *)
C13_Witness ==
  LET run == PropagateRun(gears)
  IN /\ phase = "call"
     /\ Len(gears) = 4
     /\ Cardinality(Motors(gears, DOMAIN gears)) = 2
     /\ \E f \in run.floods : Len(f) = 3
     /\ Len(run.pushes) = 4

(* C14: the order of the collection does not matter to the simulation:    *)
(* every permutation of the collection gives every gear the same rpm,      *)
(* direction and jammed after propagateMotion.                             *)
Orders(n) ==
  {f \in [1..n -> 1..n] : \A a, b \in 1..n : a # b => f[a] # f[b]}

Derived(g) == [rpm |-> g.rpm, direction |-> g.direction, jammed |-> g.jammed]

C14_OrderInsignificant ==
  LET n == Len(gears)
      base == propagateMotion(gears)
  IN \A f \in Orders(n) :
       LET out == propagateMotion([i \in 1..n |-> gears[f[i]]])
       IN \A i \in 1..n : Derived(out[i]) = Derived(base[f[i]])

(* C15: areMeshed and areAxleConnected are symmetric and never both true  *)
(* of a pair; areMeshed is false across levels, areAxleConnected is false  *)
(* within a level; the adjacency is symmetric with at most one link, of    *)
(* one type, per pair.                                                     *)
EdgesOf(adj) ==
  UNION {{<<i, adj[i][n].id, adj[i][n].type>> : n \in DOMAIN adj[i]} :
         i \in DOMAIN adj}

EdgeCount(adj) ==
  LET add[i \in 0..Len(adj)] == IF i = 0 THEN 0 ELSE add[i - 1] + Len(adj[i])
  IN add[Len(adj)]

C15_LinksSymmetricExclusive ==
  /\ \A i, j \in DOMAIN gears :
       i # j =>
         /\ areMeshed(gears[i], gears[j]) = areMeshed(gears[j], gears[i])
         /\ areAxleConnected(gears[i], gears[j])
              = areAxleConnected(gears[j], gears[i])
         /\ ~(areMeshed(gears[i], gears[j]) /\ areAxleConnected(gears[i], gears[j]))
         /\ gears[i].level # gears[j].level => ~areMeshed(gears[i], gears[j])
         /\ gears[i].level = gears[j].level => ~areAxleConnected(gears[i], gears[j])
  /\ phase = "call" =>
       \E adj \in {Adjacency(gears)} : \E edges \in {EdgesOf(adj)} :
         /\ \A e \in edges : <<e[2], e[1], e[3]>> \in edges
         /\ \A e, f \in edges : e[1] = f[1] /\ e[2] = f[2] => e = f
         /\ Cardinality(edges) = EdgeCount(adj)

(* a meshed pair, a pair on one axle, and a pair on different levels with  *)
(* their centers at mesh distance, which is not linked                     *)
C15_Witness ==
  /\ phase = "call"
  /\ \E i, j \in DOMAIN gears : areMeshed(gears[i], gears[j])
  /\ \E i, j \in DOMAIN gears : areAxleConnected(gears[i], gears[j])
  /\ \E i, j \in DOMAIN gears :
       /\ gears[i].level # gears[j].level
       /\ WithinOf(actualDistance2(gears[i], gears[j]),
                   meshDistance(gears[i], gears[j]), MESH_EPS)
       /\ ~Linked(gears, i, j)

(* SpecMesh: areMeshed as a function of two centers.  It starts with two   *)
(* gears of one level whose centers are exactly the sum of their pitch     *)
(* radii apart, along an axis or along a 3-4-5 diagonal; one step writes   *)
(* a new center to one of the two and runs propagateMotion, as the end of  *)
(* the move branch does.                                                   *)
MaxNudge == 6

PairCenter == <<400, 250>>

Directions == {<<5, 0>>, <<0, 5>>, <<-5, 0>>, <<0, -5>>, <<3, 4>>, <<-4, 3>>}

Placed(item, c, level, id) ==
  [id |-> id, type |-> PALETTE_ITEMS[item].type,
   teeth |-> PALETTE_ITEMS[item].teeth, x |-> c[1], y |-> c[2],
   rpm |-> ZeroRpm, direction |-> 0, jammed |-> FALSE, level |-> level,
   angle |-> ZeroAngle]

InitPair ==
  /\ \E a, b \in PaletteUsed, u \in Directions, level \in {1, 2} :
       LET k == (pitchRadius(PALETTE_ITEMS[a].teeth)
                   + pitchRadius(PALETTE_ITEMS[b].teeth)) \div 5
           c2 == <<PairCenter[1] + k * u[1], PairCenter[2] + k * u[2]>>
       IN gears = propagateMotion(<<Placed(a, PairCenter, level, 1),
                                    Placed(b, c2, level, 2)>>)
  /\ nextId = 3
  /\ selectedGearId = NoId
  /\ activeLevel = 1
  /\ dragging = FALSE
  /\ dragGear = NoId
  /\ dragFromPalette = NoId
  /\ dragOffsetX = 0
  /\ dragOffsetY = 0
  /\ dragX = 0
  /\ dragY = 0
  /\ playing = TRUE
  /\ phase = "call"
  /\ lastOp = [op |-> "init", jam |-> {}, spin |-> {}, top |-> 2]
  /\ BlastIdle

Nudge ==
  /\ phase = "call"
  /\ \E i \in DOMAIN gears, dx, dy \in -MaxNudge..MaxNudge :
       /\ dx * dx + dy * dy > MESH_EPS * MESH_EPS
       /\ Becomes([Cur EXCEPT !.gears = propagateMotion(
                     [gears EXCEPT ![i].x = @ + dx, ![i].y = @ + dy])])
  /\ Ghost("nudge")

NextMesh == Nudge

SpecMesh == InitPair /\ [][NextMesh]_vars

(* C16: two gears of one level whose centers are exactly the sum of their  *)
(* pitch radii apart are meshed; once either center has moved by more than *)
(* the mesh epsilon, in any direction, the pair is not meshed.             *)
ExactlyApart(gs) ==
  /\ Len(gs) = 2
  /\ gs[1].level = gs[2].level
  /\ actualDistance2(gs[1], gs[2]) = meshDistance(gs[1], gs[2]) * meshDistance(gs[1], gs[2])

C16_AnyMoveUnmeshes ==
  [][ExactlyApart(gears) /\ phase = "call" =>
       /\ areMeshed(gears[1], gears[2])
       /\ ~areMeshed(gears'[1], gears'[2])]_vars

(* C16 as amended: the pair is not meshed once either center has moved by  *)
(* more than the mesh epsilon along the line of centers, away from the     *)
(* other gear or toward it.                                                *)
AlongLineOfCenters(gs, after) ==
  \E i \in {1, 2} :
    LET o == 3 - i
        vx == gs[i].x - gs[o].x
        vy == gs[i].y - gs[o].y
        dx == after[i].x - gs[i].x
        dy == after[i].y - gs[i].y
    IN /\ after[o].x = gs[o].x /\ after[o].y = gs[o].y
       /\ vx * dy = vy * dx
       /\ dx * dx + dy * dy > MESH_EPS * MESH_EPS
       /\ dx * dx + dy * dy < vx * vx + vy * vy

C16_RadialMoveUnmeshes ==
  [][ExactlyApart(gears) /\ phase = "call" =>
       /\ areMeshed(gears[1], gears[2])
       /\ areMeshed(gears[2], gears[1])
       /\ AlongLineOfCenters(gears, gears') =>
            /\ ~areMeshed(gears'[1], gears'[2])
            /\ \A i \in {1, 2} :
                 ~isMotorType(gears'[i].type) => gears'[i].direction = 0]_vars

(* a motor and a gear that turned as a pair; the gear was moved five units *)
(* along a diagonal line of centers and stands still                       *)
C16_Witness ==
  /\ lastOp.op = "nudge"
  /\ Cardinality(lastOp.spin) = 2
  /\ gears[1].x # gears[2].x /\ gears[1].y # gears[2].y
  /\ \E i \in {1, 2} : \E o \in {3 - i} :
       /\ isMotorType(gears[o].type) /\ ~isMotorType(gears[i].type)
       /\ gears[o].x = PairCenter[1] /\ gears[o].y = PairCenter[2]
       /\ gears[i].direction = 0
       /\ \E r \in {meshDistance(gears[1], gears[2]) + 5,
                     meshDistance(gears[1], gears[2]) - 5} :
            actualDistance2(gears[1], gears[2]) = r * r

(* SpecSwitch: one step per gesture, with the gear drags during which a   *)
(* level button is clicked between the last pointer-move and pointer-up.   *)
DragSwitchGesture ==
  \E from \in Centers(gears) : \E target \in Sites :
    \E held \in {DragStart(Cur, from, target)} :
      \E switched \in {setLevel(held, 3 - held.activeLevel)} :
        \E nx \in {handleCanvasPointerUp(switched)} :
          /\ ~dragging
          /\ held.dragging
          /\ OnSites(nx.gears)
          /\ Becomes(nx)
          /\ Ghost(UpKind(switched))

NextSwitch ==
  \/ DropGesture
  \/ DragSwitchGesture
  \/ SetLevel

SpecSwitch == Init /\ [][NextSwitch]_vars

(* C17: every gear is axle-connected to at most one other gear.            *)
AxleMates(gs, i) == {j \in DOMAIN gs : j # i /\ areAxleConnected(gs[i], gs[j])}

C17_AtMostOneAxleMate ==
  \A i \in DOMAIN gears : Cardinality(AxleMates(gears, i)) <= 1

(* C18: deleteSelected removes the one gear whose id is selectedGearId,    *)
(* keeps every other gear with its id, kind, teeth, center, level and its  *)
(* place in the order, clears the selection, leaves nextId alone and runs  *)
(* propagateMotion; with nothing selected it changes nothing.              *)
Unselected(s) == [s EXCEPT !.selectedGearId = NoId]

MaxScore == 30

(* the shapes Math.random is let pick for the three slots: 1x4, 1x5 and   *)
(* 5x1 lines, by their place in SHAPES                                     *)
TrioShapes == {<<4, 4, 4>>, <<9, 9, 5>>}

(* the color Math.random is let pick for the piece of each slot, by its    *)
(* place in COLORS                                                         *)
SlotColors == <<1, 4, 1>>

Trios ==
  {[i \in 1..3 |-> [shape |-> SHAPES[f[i]], color |-> COLORS[SlotColors[i]]]] :
     f \in TrioShapes}

(* the board cells the pointer is let click or drop on *)
ClickCells == {<<0, 0>>, <<0, 4>>, <<0, 3>>, <<3, 4>>}

Slots == 0..2

Played(op, index, at) ==
  lastPlay' = [op |-> op, index |-> index, at |-> at, score |-> score]

InitBlast ==
  /\ gears = State0.gears
  /\ nextId = State0.nextId
  /\ selectedGearId = State0.selectedGearId
  /\ activeLevel = State0.activeLevel
  /\ dragging = State0.dragging
  /\ dragGear = State0.dragGear
  /\ dragFromPalette = State0.dragFromPalette
  /\ dragOffsetX = State0.dragOffsetX
  /\ dragOffsetY = State0.dragOffsetY
  /\ dragX = State0.dragX
  /\ dragY = State0.dragY
  /\ playing = State0.playing
  /\ phase = "idle"
  /\ lastOp = [op |-> "init", jam |-> {}, spin |-> {}, top |-> 0]
  /\ \E trio \in Trios : BlastIs(resetGame(Blast0, trio))
  /\ lastPlay = [op |-> "mount", index |-> NoIndex, at |-> OffBoard,
                 score |-> 0]

(* a tap on a piece: pointer-down and pointer-up with no move between *)
TapPiece ==
  \E i \in Slots :
    /\ BlastBecomes(handlePointerUp(handlePiecePointerDown(BlastCur, i)))
    /\ Played("tap", i, OffBoard)
    /\ UNCHANGED gearVars

BoardClick ==
  \E at \in ClickCells :
    /\ score <= MaxScore
    /\ BlastBecomes(handleBoardClick(BlastCur, at[1], at[2]))
    /\ Played("click", selectedPieceIndex, at)
    /\ UNCHANGED gearVars

(* a drag of a piece: pointer-down, pointer-move, pointer-up *)
DragDrop ==
  \E i \in Slots, at \in ClickCells \cup {OffBoard} :
    /\ score <= MaxScore
    /\ BlastBecomes(handlePointerUp(
         handlePointerMove(handlePiecePointerDown(BlastCur, i), at)))
    /\ Played("drop", i, at)
    /\ UNCHANGED gearVars

(* the timers that can be the next to fire: none set before it has a delay *)
(* as short or shorter                                                     *)
CanFire(k) == \A j \in 1..(k - 1) : timers[j].delay > timers[k].delay

Without(seq, k) == SubSeq(seq, 1, k - 1) \o SubSeq(seq, k + 1, Len(seq))

FireTimer ==
  \E k \in DOMAIN timers :
    /\ CanFire(k)
    /\ \E rest \in {[BlastCur EXCEPT !.timers = Without(timers, k)]} :
         CASE timers[k].kind = "clear" ->
                BlastBecomes(clearLines(rest, timers[k].cells))
           [] timers[k].kind = "refill" ->
                \E trio \in Trios : BlastBecomes(refillPieces(rest, trio))
           [] timers[k].kind = "end" -> BlastBecomes(endGame(rest))
    /\ Played(timers[k].kind, NoIndex, OffBoard)
    /\ UNCHANGED gearVars

(* the Play Again button of the game-over card *)
PlayAgain ==
  /\ gameOver
  /\ \E trio \in Trios : BlastBecomes(resetGame(BlastCur, trio))
  /\ Played("reset", NoIndex, OffBoard)
  /\ UNCHANGED gearVars

NextBlast ==
  \/ TapPiece
  \/ BoardClick
  \/ DragDrop
  \/ FireTimer
  \/ PlayAgain

SpecBlast == InitBlast /\ [][NextBlast]_vars

(* ------------------------ Block Blast properties ----------------------- *)
(* the placement the last click or drop asked for: the piece of the slot   *)
(* and the board cells its shape covers from the cell clicked              *)
AskedPiece == PieceAt(BlastCur, lastPlay'.index)

AskedCells ==
  {<<lastPlay'.at[1] + rc[1], lastPlay'.at[2] + rc[2]>> :
     rc \in ShapeCells(AskedPiece.shape)}

AskedFits ==
  /\ ~gameOver
  /\ ~IsNullPiece(AskedPiece)
  /\ \A cell \in AskedCells : InBoard(cell[1], cell[2]) /\ board[cell[1]][cell[2]] = null

IsPlacement == lastPlay'.op \in {"click", "drop"}

(* C19: a placement changes the board only if every cell the shape covers  *)
(* is on the board and empty; it then sets exactly those cells to the      *)
(* color of the piece; no filled cell is ever overwritten.                 *)
C19_PlacementFillsOnlyEmptyCells ==
  [][IsPlacement =>
       \E cells \in {AskedCells} : \E color \in {AskedPiece.color} :
         IF AskedFits
         THEN board' = [r \in Idx |-> [c \in Idx |->
                          IF <<r, c>> \in cells THEN color ELSE board[r][c]]]
         ELSE board' = board]_vars

(* a piece was dropped beside cells of another color, after a drop that    *)
(* was refused had left the board alone                                    *)
C19_Witness ==
  /\ lastPlay.op = "drop"
  /\ lastPlay.at # OffBoard
  /\ score = lastPlay.score + 5
  /\ \E r \in Idx, c \in Idx : board[r][c] = COLORS[1]
  /\ \E r \in Idx, c \in Idx : board[r][c] = COLORS[4]

(* C20: a successful placement raises the score by at least the number of  *)
(* cells of the shape, a rejected one leaves it, and the score never       *)
(* decreases but by resetGame.                                             *)
C20_ScoreGrows ==
  [][/\ IsPlacement /\ AskedFits =>
          score' >= score + Cardinality(AskedCells) /\ score' > score
     /\ IsPlacement /\ ~AskedFits => score' = score
     /\ lastPlay'.op # "reset" => score' >= score]_vars

(* a placement that completed a row scored its four cells and the line *)
C20_Witness ==
  /\ lastPlay.op \in {"click", "drop"}
  /\ score = lastPlay.score + 4 + BOARD_SIZE
  /\ lastPlay.score > 0
  /\ rowsToClear(board) # {}

(* SpecSteps: the Block Blast page, one step per handler call: the pointer *)
(* handlers of a drag are separate steps, so a board click (a key press on *)
(* a focused cell) or a timer callback can fall between them.              *)
MaxStepScore == 10

PieceDown ==
  \E i \in Slots :
    /\ BlastBecomes(handlePiecePointerDown(BlastCur, i))
    /\ Played("down", i, OffBoard)
    /\ UNCHANGED gearVars

PieceMove ==
  \E at \in ClickCells \cup {OffBoard} :
    /\ BlastBecomes(handlePointerMove(BlastCur, at))
    /\ Played("move", dragPieceIndex, at)
    /\ UNCHANGED gearVars

PieceUp ==
  /\ score <= MaxStepScore
  /\ BlastBecomes(handlePointerUp(BlastCur))
  /\ Played(IF isDragging THEN "drop" ELSE "tap", dragPieceIndex, dragAt)
  /\ UNCHANGED gearVars

CellClick ==
  /\ score <= MaxStepScore
  /\ BoardClick

NextSteps ==
  \/ PieceDown
  \/ PieceMove
  \/ PieceUp
  \/ CellClick
  \/ FireTimer
  \/ PlayAgain

SpecSteps == InitBlast /\ [][NextSteps]_vars

(* C21: a placement that succeeds leaves its slot null and nothing         *)
(* selected; a null slot is never the selected one, a pointer-down on it   *)
(* starts no drag, and it stays null until generatePieces runs again, so   *)
(* no piece is placed twice.                                               *)
C21_UsedSlotNotReused ==
  [][/\ (IsPlacement /\ board' # board) =>
          /\ ~IsNullPiece(AskedPiece)
          /\ IsNullPiece(PieceAt(BlastCur', lastPlay'.index))
          /\ selectedPieceIndex' = NoIndex
     /\ selectedPieceIndex' # NoIndex =>
          ~IsNullPiece(PieceAt(BlastCur', selectedPieceIndex'))
     /\ (lastPlay'.op = "down" /\ IsNullPiece(AskedPiece)) =>
          dragPieceIndex' = dragPieceIndex
     /\ \A i \in Slots :
          (IsNullPiece(PieceAt(BlastCur, i)) /\ ~IsNullPiece(PieceAt(BlastCur', i)))
            => lastPlay'.op \in {"refill", "reset"}]_vars

(* every pending setTimeout callback is run in the end *)
SpecStepsFair == SpecSteps /\ WF_vars(FireTimer)

AllUsed == Len(pieces) = 3 /\ \A i \in Slots : IsNullPiece(PieceAt(BlastCur, i))

AllFresh == Len(pieces) = 3 /\ \A i \in Slots : ~IsNullPiece(PieceAt(BlastCur, i))

(* C22: once all three slots are null, three non-null pieces follow (the   *)
(* timers being run); a placement that leaves a piece in some slot sets    *)
(* only its own slot to null and starts no refill.                         *)
C22_RefillFollowsLastPiece ==
  /\ AllUsed ~> AllFresh
  /\ [][(IsPlacement /\ ~AllUsed') =>
          /\ \A i \in Slots :
               pieces'[i + 1] = IF i = lastPlay'.index /\ board' # board
                                THEN NullPiece ELSE pieces[i + 1]
          /\ \A k \in DOMAIN timers' : k > Len(timers) => timers'[k].kind # "refill"]_vars

(* the third piece was placed and the refill callback has drawn three more *)
C22_Witness ==
  /\ lastPlay.op = "refill"
  /\ AllFresh
  /\ score >= 12
  /\ ~gameOver

(* a pointer-up that ends a tap: selectPiece is called with the slot of    *)
(* the pointer-down                                                        *)
IsSelect == lastPlay'.op = "tap" /\ lastPlay'.index # NoIndex

(* C23: selectPiece on a piece that is there, the game not over, clears    *)
(* the selection if that slot was the selected one and else makes it the   *)
(* selected slot; on a null slot or when the game is over it changes       *)
(* nothing; board, score and pieces are never changed by it.               *)
C23_SelectToggles ==
  [][IsSelect =>
       /\ selectedPieceIndex' =
            IF gameOver \/ IsNullPiece(AskedPiece) THEN selectedPieceIndex
            ELSE IF selectedPieceIndex = lastPlay'.index THEN NoIndex
            ELSE lastPlay'.index
       /\ board' = board
       /\ score' = score
       /\ pieces' = pieces
       /\ gameOver' = gameOver
       /\ highScore' = highScore
       /\ timers' = timers]_vars

(* a tap ended on a slot whose piece a board click had placed since the    *)
(* pointer-down: nothing became selected                                   *)
C23_Witness ==
  /\ lastPlay.op = "tap"
  /\ lastPlay.index # NoIndex
  /\ IsNullPiece(PieceAt(BlastCur, lastPlay.index))
  /\ selectedPieceIndex = NoIndex
  /\ ~gameOver

(* C24: a click on a board cell with no piece selected, or with the game   *)
(* over, or with a selected piece that does not fit at the cell, changes   *)
(* neither the board nor the score nor the pieces, ends no game and sets   *)
(* no timer.                                                               *)
C24_IdleClickChangesNothing ==
  [][(lastPlay'.op = "click" /\ ~AskedFits) =>
       /\ board' = board
       /\ score' = score
       /\ pieces' = pieces
       /\ gameOver' = gameOver
       /\ highScore' = highScore
       /\ clearingCells' = clearingCells
       /\ timers' = timers]_vars

(* a click with nothing selected, on a board that holds a piece and has    *)
(* room for another                                                        *)
C24_Witness ==
  /\ lastPlay.op = "click"
  /\ lastPlay.index = NoIndex
  /\ score = lastPlay.score
  /\ score > 0
  /\ ~gameOver
  /\ canAnyPieceFit(BlastCur)

(* SpecShapes: the first placement of a game, for every shape of SHAPES    *)
(* and every cell of the board.  Math.random draws the same shape for the  *)
(* three slots.                                                            *)
InitShapes ==
  /\ gears = State0.gears
  /\ nextId = State0.nextId
  /\ selectedGearId = State0.selectedGearId
  /\ activeLevel = State0.activeLevel
  /\ dragging = State0.dragging
  /\ dragGear = State0.dragGear
  /\ dragFromPalette = State0.dragFromPalette
  /\ dragOffsetX = State0.dragOffsetX
  /\ dragOffsetY = State0.dragOffsetY
  /\ dragX = State0.dragX
  /\ dragY = State0.dragY
  /\ playing = State0.playing
  /\ phase = "idle"
  /\ lastOp = [op |-> "init", jam |-> {}, spin |-> {}, top |-> 0]
  /\ \E f \in DOMAIN SHAPES :
       BlastIs(resetGame(Blast0,
         [i \in 1..3 |-> [shape |-> SHAPES[f], color |-> COLORS[SlotColors[i]]]]))
  /\ lastPlay = [op |-> "mount", index |-> NoIndex, at |-> OffBoard,
                 score |-> 0]

(* the first click of a game on any cell of the board *)
FirstClick ==
  \E at \in Idx \X Idx :
    /\ score = 0
    /\ BlastBecomes(handleBoardClick(BlastCur, at[1], at[2]))
    /\ Played("click", selectedPieceIndex, at)
    /\ UNCHANGED gearVars

NextShapes ==
  \/ TapPiece
  \/ FirstClick

SpecShapes == InitShapes /\ [][NextShapes]_vars

(* C25: a click on cell (r, c) that places the selected piece fills cell   *)
(* (r, c) itself, whatever the shape; on the empty board a click on cell   *)
(* (0, 0) places any piece.                                                *)
C25_ClickedCellIsFilled ==
  [][lastPlay'.op = "click" =>
       /\ AskedFits => board'[lastPlay'.at[1]][lastPlay'.at[2]] # null
       /\ (board = createEmptyBoard /\ lastPlay'.at = <<0, 0>>
             /\ ~IsNullPiece(AskedPiece)) => board' # board]_vars

(* ------------------------ motors of one component ---------------------- *)
(* the motor of the component of i that comes first in the collection *)
FirstMotor(gs, i) ==
  CHOOSE m \in Motors(gs, Component(gs, i)) :
    \A k \in Motors(gs, Component(gs, i)) : m <= k

(* the collection with every motor but the first of its component turned   *)
(* into a plain gear of the same teeth                                     *)
OnlyFirstMotors(gs) ==
  [i \in DOMAIN gs |->
     IF isMotorType(gs[i].type) /\ FirstMotor(gs, i) # i
     THEN [gs[i] EXCEPT !.type = "gear"] ELSE gs[i]]

(* C26: the first motor of a component in collection order is the seed of  *)
(* the whole component: the result is the one the collection gives when    *)
(* the later motors of each component are plain gears, and in a component  *)
(* that is not jammed the first motor has direction +1 and its rated rpm.  *)
C26_FirstMotorSeedsComponent ==
  phase = "idle" =>
    \E out \in {propagateMotion(OnlyFirstMotors(gears))} :
      \A i \in DOMAIN gears :
        /\ Derived(out[i]) = Derived(gears[i])
        /\ (isMotorType(gears[i].type) /\ FirstMotor(gears, i) = i
              /\ ~gears[i].jammed) =>
             /\ gears[i].direction = 1
             /\ gears[i].rpm = <<RatedRpm(gears[i].type), 1>>

(* a later motor of a component that is not jammed turns against its seed  *)
(* direction at another speed than its rated one                           *)
C26_Witness ==
  /\ phase = "idle"
  /\ \E i \in DOMAIN gears :
       /\ isMotorType(gears[i].type)
       /\ FirstMotor(gears, i) < i
       /\ ~gears[i].jammed
       /\ gears[i].direction = -1
       /\ gears[i].rpm # <<RatedRpm(gears[i].type), 1>>

(* C27: when the traversal from the first motor of a component gives a     *)
(* later motor of it another direction than the +1 of a seed, the          *)
(* component is jammed.                                                    *)
C27_OpposedMotorsJam ==
  phase = "idle" =>
    \E out \in {propagateMotion(OnlyFirstMotors(gears))} :
      \A j \in DOMAIN gears :
        (isMotorType(gears[j].type) /\ FirstMotor(gears, j) < j
           /\ out[j].direction # 1) =>
          \A g \in Component(gears, j) : gears[g].jammed

(* some choice of +1 or -1 for every gear of the set reverses across every *)
(* mesh and agrees across every axle                                       *)
DirectionsExist(gs, set) ==
  \E d \in [set -> {1, -1}] :
    \A i, j \in set :
      /\ areMeshed(gs[i], gs[j]) => d[i] = -d[j]
      /\ areAxleConnected(gs[i], gs[j]) => d[i] = d[j]

(* C28: a component with a motor is jammed exactly when no directions      *)
(* exist for it; a component that is a tree is never jammed, and a loop    *)
(* whose speeds disagree but whose directions agree is not jammed.         *)
C28_JammedIffNoDirections ==
  phase = "idle" =>
    \A i \in DOMAIN gears :
      \E comp \in {Component(gears, i)} :
        /\ Motors(gears, comp) # {} =>
             (gears[i].jammed <=> ~DirectionsExist(gears, comp))
        /\ IsTree(gears, comp) => ~gears[i].jammed

(* a loop of four gears with a motor whose speeds disagree across a mesh   *)
(* turns unjammed                                                          *)
C28_Witness ==
  /\ phase = "idle"
  /\ Len(gears) = 4
  /\ Cardinality(Component(gears, 1)) = 4
  /\ ~IsTree(gears, Component(gears, 1))
  /\ \A i \in DOMAIN gears : ~gears[i].jammed /\ gears[i].direction # 0
  /\ \E i, j \in DOMAIN gears :
       areMeshed(gears[i], gears[j]) /\ ~SameSurfaceSpeed(gears[i], gears[j])

(* SpecEdit: one add, move or delete on a level-1 layout of up to four     *)
(* gears, the last of them on the center away from the others, so that     *)
(* the layout has two components.                                          *)
InitEdit ==
  /\ \E n \in 2..MaxLayoutGears :
       \E f \in [1..n -> Placements] :
         /\ NoOverlap(f)
         /\ \A i \in 1..n : f[i][2] \in Sites <=> i < n
         /\ \A i \in 1..n : f[i][3] = 1
         /\ gears = propagateMotion([i \in 1..n |-> GearOf(f[i], i)])
         /\ nextId = n + 1
  /\ selectedGearId = NoId
  /\ activeLevel = 1
  /\ dragging = FALSE
  /\ dragGear = NoId
  /\ dragFromPalette = NoId
  /\ dragOffsetX = 0
  /\ dragOffsetY = 0
  /\ dragX = 0
  /\ dragY = 0
  /\ playing = TRUE
  /\ phase = "idle"
  /\ lastOp = [op |-> "init", jam |-> {}, spin |-> {}, top |-> 0]
  /\ BlastIdle

Untouched == lastOp.op \in {"init", "level"}

(* the edit is the only one of the behaviour, so the gear may land on any  *)
(* center the snapping gives                                               *)
EditDrop ==
  \E item \in PaletteUsed, target \in LayoutSites \cup Points :
    \E held \in {DropStart(Cur, item, target)} :
      /\ Untouched
      /\ Len(gears) < MaxLayoutGears
      /\ Becomes(handleCanvasPointerUp(held))
      /\ Ghost(UpKind(held))

EditDrag ==
  \E from \in Centers(gears) : \E target \in LayoutSites \cup Points :
    \E held \in {DragStart(Cur, from, target)} :
      /\ Untouched
      /\ held.dragging
      /\ Becomes(handleCanvasPointerUp(held))
      /\ Ghost(UpKind(held))

(* a click on a gear, then the Delete button *)
EditDelete ==
  \E from \in Centers(gears) :
    \E picked \in {handleCanvasPointerUp(handleCanvasPointerDown(Cur, from))} :
      /\ Untouched
      /\ picked.selectedGearId # NoId
      /\ Becomes(deleteSelected(picked))
      /\ Ghost("delete")

EditLevel == Untouched /\ SetLevel

NextEdit ==
  \/ EditDrop
  \/ EditDrag
  \/ EditDelete
  \/ EditLevel

SpecEdit == InitEdit /\ [][NextEdit]_vars

(* the ids of the gears the step added, removed or put elsewhere *)
Touched ==
  {id \in IdsOf(gears) \cup IdsOf(gears') :
     \/ IndexOf(gears, id) = 0
     \/ IndexOf(gears', id) = 0
     \/ Structural(gears[IndexOf(gears, id)])
          # Structural(gears'[IndexOf(gears', id)])}

ComponentIds(gs, i) == {gs[k].id : k \in Component(gs, i)}

(* C29: an add, move or delete leaves rpm, direction and jammed of every   *)
(* gear whose component, before and after, holds none of the gears the     *)
(* step touched.                                                           *)
C29_ComponentsIndependent ==
  [][\E touched \in {Touched} :
       \A id \in IdsOf(gears) \cap IdsOf(gears') :
         \E i \in {IndexOf(gears, id)} : \E j \in {IndexOf(gears', id)} :
           (/\ ComponentIds(gears, i) \cap touched = {}
            /\ ComponentIds(gears', j) \cap touched = {}) =>
             Derived(gears'[j]) = Derived(gears[i])]_vars

(* a jammed triangle is still jammed after a turning motor apart from it   *)
(* was deleted                                                             *)
C29_Witness ==
  /\ lastOp.op = "delete"
  /\ Len(gears) = 3
  /\ \A i \in 1..3 : gears[i].jammed /\ gears[i].id \in lastOp.jam
  /\ lastOp.spin \ IdsOf(gears) # {}

(* SpecUp: one drag on a layout of one or two gears on either level, one   *)
(* step per handler; the pointer is released on a center or 4 px short of  *)
(* one, and the gear may land on any center the snapping gives, as no      *)
(* second drag follows.                                                    *)
InitUp ==
  /\ \E n \in 1..2 :
       \E f \in [1..n -> Placements] :
         /\ NoOverlap(f)
         /\ gears = propagateMotion([i \in 1..n |-> GearOf(f[i], i)])
         /\ nextId = n + 1
  /\ selectedGearId = NoId
  /\ activeLevel = 1
  /\ dragging = FALSE
  /\ dragGear = NoId
  /\ dragFromPalette = NoId
  /\ dragOffsetX = 0
  /\ dragOffsetY = 0
  /\ dragX = 0
  /\ dragY = 0
  /\ playing = TRUE
  /\ phase = "idle"
  /\ lastOp = [op |-> "init", jam |-> {}, spin |-> {}, top |-> 0]
  /\ BlastIdle

(* no pointer-up has ended a drag yet *)
Armed == lastOp.op \in {"init", "level", "paletteDown", "canvasDown", "pointerMove"}

UpPick ==
  \E item \in PaletteUsed :
    /\ ~dragging
    /\ Becomes(handlePalettePointerDown(Cur, item, PalettePos))
    /\ Ghost("paletteDown")

UpRelease ==
  /\ dragging
  /\ Becomes(handleGlobalPointerUp(handleCanvasPointerUp(Cur)))
  /\ Ghost(UpKind(Cur))

NextUp ==
  /\ Armed
  /\ \/ UpPick
     \/ CanvasPointerDown
     \/ PointerMove
     \/ UpRelease
     \/ SetLevel

SpecUp == InitUp /\ [][NextUp]_vars

(* the pointer-up of the step ends the drag of a gear that is in the       *)
(* collection, or of a palette item                                        *)
IsRelease ==
  /\ dragging /\ ~dragging'
  /\ lastOp'.op \in {"add", "addRejected", "move", "moveRejected"}

HeldTeeth ==
  IF dragGear # NoId THEN gears[IndexOf(gears, dragGear)].teeth
  ELSE PALETTE_ITEMS[dragFromPalette].teeth

(* the one position the claim names: the axle target's center, else the    *)
(* mesh snap, else the raw position                                        *)
Preferred ==
  LET axle == findAxleSnapTarget(gears, dragX, dragY, dragGear, activeLevel)
      snap == findSnapPosition(gears, HeldTeeth, dragX, dragY, dragGear,
                               activeLevel)
  IN IF axle.found THEN <<axle.x, axle.y>>
     ELSE IF snap.found THEN <<snap.x, snap.y>>
     ELSE <<dragX, dragY>>

PreferredPasses ==
  /\ ~wouldOverlap(gears, HeldTeeth, Preferred[1], Preferred[2], dragGear,
                   activeLevel)
  /\ dragGear = NoId => InBounds(HeldTeeth, Preferred[1], Preferred[2])

(* C30: a pointer-up commits the gear on the preferred position when that  *)
(* position passes the overlap check (and, for an add, the bounds check),  *)
(* and else commits nothing: no gear is added or put elsewhere.            *)
C30_OneCandidateOnly ==
  [][IsRelease =>
       \E c \in {Preferred} : \E pass \in {PreferredPasses} :
         IF dragGear # NoId
         THEN /\ Len(gears') = Len(gears)
              /\ \A i \in DOMAIN gears :
                   <<gears'[i].x, gears'[i].y>> =
                     IF gears[i].id = dragGear /\ pass THEN c
                     ELSE <<gears[i].x, gears[i].y>>
         ELSE /\ Len(gears') = Len(gears) + (IF pass THEN 1 ELSE 0)
              /\ \A i \in DOMAIN gears :
                   <<gears'[i].x, gears'[i].y>> = <<gears[i].x, gears[i].y>>
              /\ pass => <<gears'[Len(gears')].x, gears'[Len(gears')].y>> = c]_vars

(* a gear was added on the center of a gear of the other level although    *)
(* the mesh snap of the release point lies elsewhere                       *)
C30_Witness ==
  /\ lastOp.op = "add"
  /\ Len(gears) = 3
  /\ gears[3].level = activeLevel
  /\ \E i \in 1..2 :
       /\ gears[i].level # activeLevel
       /\ gears[i].x = gears[3].x /\ gears[i].y = gears[3].y
  /\ \E snap \in {findSnapPosition(SubSeq(gears, 1, 2), gears[3].teeth,
                                   dragX, dragY, NoId, activeLevel)} :
       snap.found /\ <<snap.x, snap.y>> # <<gears[3].x, gears[3].y>>

(* ------------------------------------------------------------------------ *)
(* The mesh snap as a function of the pointer position.                     *)
(* Pointer positions the snap is asked about during a drag: the points of   *)
(* the drags, a point 28 px from the first site (inside the tolerance band  *)
(* of two 12T gears and nearer than half their pitch sum), points between   *)
(* the sites, and a point far from every gear.                              *)
SnapTargets ==
  Points \cup { <<128, 100>>, <<140, 100>>, <<150, 135>>, <<110, 134>>, FarPoint }

(* positions in gs of the gears the claim calls eligible *)
EligibleAt(gs, teeth, x, y, excludeId, level) ==
  { i \in DOMAIN gs :
      /\ gs[i].id # excludeId
      /\ gs[i].level = level
      /\ SnapEligible(Dist2(x, y, gs[i].x, gs[i].y),
                      pitchRadius(teeth) + pitchRadius(gs[i].teeth))
      /\ ~TooClose(Dist2(x, y, gs[i].x, gs[i].y),
                   pitchRadius(teeth) + pitchRadius(gs[i].teeth)) }

MissAt(gs, teeth, x, y, i) ==
  SnapDist(Dist2(x, y, gs[i].x, gs[i].y),
           pitchRadius(teeth) + pitchRadius(gs[i].teeth))

(* (px, py) lies, to the pixel, at distance ideal from the center of g on   *)
(* the ray from that center through (x, y)                                  *)
OnRayAt(g, ideal, x, y, px, py) ==
  LET dx == x - g.x
      dy == y - g.y
      ex == px - g.x
      ey == py - g.y
      cross == dx * ey - dy * ex
  IN /\ WithinOf(ex * ex + ey * ey, ideal, 1)
     /\ dx * ex + dy * ey > 0
     /\ cross * cross <= dx * dx + dy * dy

SnapAsSpecified(gs, teeth, x, y, excludeId, level) ==
  LET snap == findSnapPosition(gs, teeth, x, y, excludeId, level)
      el == EligibleAt(gs, teeth, x, y, excludeId, level)
  IN IF el = {} THEN ~snap.found
     ELSE
       LET best == CHOOSE i \in el :
                     \A j \in el :
                       \/ MissAt(gs, teeth, x, y, i) < MissAt(gs, teeth, x, y, j)
                       \/ /\ MissAt(gs, teeth, x, y, i) = MissAt(gs, teeth, x, y, j)
                          /\ i <= j
       IN /\ snap.found
          /\ snap.snapTo = gs[best].id
          /\ OnRayAt(gs[best], pitchRadius(teeth) + pitchRadius(gs[best].teeth),
                     x, y, snap.x, snap.y)
          /\ areMeshed([teeth |-> teeth, x |-> snap.x, y |-> snap.y,
                        level |-> level], gs[best])

AxleCandidates(gs, x, y, excludeId, currentLevel) ==
  { i \in DOMAIN gs :
      /\ gs[i].id # excludeId
      /\ gs[i].level # currentLevel
      /\ Dist2(x, y, gs[i].x, gs[i].y) < AXLE_SNAP_DIST * AXLE_SNAP_DIST }

AxleAsSpecified(gs, x, y, excludeId, currentLevel) ==
  LET axle == findAxleSnapTarget(gs, x, y, excludeId, currentLevel)
      cand == AxleCandidates(gs, x, y, excludeId, currentLevel)
  IN IF cand = {} THEN ~axle.found
     ELSE
       LET best == CHOOSE i \in cand :
                     \A j \in cand :
                       \/ Dist2(x, y, gs[i].x, gs[i].y) < Dist2(x, y, gs[j].x, gs[j].y)
                       \/ /\ Dist2(x, y, gs[i].x, gs[i].y) = Dist2(x, y, gs[j].x, gs[j].y)
                          /\ i <= j
       IN axle.found /\ axle.id = gs[best].id

(* C32: the axle snap names the nearest gear of the other level nearer      *)
(* than 25 (the first of the collection on ties) and nothing when there is  *)
(* none; and when the last gear of the collection was committed on the      *)
(* center of the gear the axle snap names there, the two are axle-connected *)
(* and, unless jammed, have the same rpm and direction after propagation.   *)
C32_AxleSnapSharesMotion ==
  (phase = "idle" /\ Len(gears) >= 2) =>
    LET n == Len(gears)
        rest == SubSeq(gears, 1, n - 1)
        axle == findAxleSnapTarget(rest, gears[n].x, gears[n].y, NoId,
                                   gears[n].level)
    IN /\ \A t \in Points : \A level \in {1, 2} :
            AxleAsSpecified(rest, t[1], t[2], NoId, level)
       /\ (axle.found /\ axle.x = gears[n].x /\ axle.y = gears[n].y) =>
            LET r == IndexOf(gears, axle.id)
            IN /\ areAxleConnected(gears[n], gears[r])
               /\ ~gears[n].jammed =>
                    /\ gears[n].rpm = gears[r].rpm
                    /\ gears[n].direction = gears[r].direction

(* ------------------------------------------------------------------------ *)
(* SpecAnim: animation frames and the play / pause button between deletes   *)
(* (a click on a gear, then the Delete button) on a propagated level-1      *)
(* layout of up to four gears, the last of them on the center away from     *)
(* the others (three gears on the sites are jammed when one is a motor).    *)
(* Frames come 0 or 16 ms apart; no frame is taken once a gear has turned   *)
(* by MaxAngle.                                                             *)
MaxAngle == 1000

FrameTimes == {0, 16}

InitAnim ==
  /\ \E n \in 2..MaxLayoutGears :
       \E f \in [1..n -> Placements] :
         /\ NoOverlap(f)
         /\ \A i \in 1..n : f[i][2] \in Sites <=> i < n
         /\ \A i \in 1..n : f[i][3] = 1
         /\ gears = propagateMotion([i \in 1..n |-> GearOf(f[i], i)])
         /\ nextId = n + 1
  /\ selectedGearId = NoId
  /\ activeLevel = 1
  /\ dragging = FALSE
  /\ dragGear = NoId
  /\ dragFromPalette = NoId
  /\ dragOffsetX = 0
  /\ dragOffsetY = 0
  /\ dragX = 0
  /\ dragY = 0
  /\ playing = TRUE
  /\ phase = "idle"
  /\ lastOp = [op |-> "init", jam |-> {}, spin |-> {}, top |-> 0]
  /\ BlastIdle

Animate ==
  \E dtMs \in FrameTimes :
    /\ \A i \in DOMAIN gears :
         Abs(gears[i].angle[1]) < MaxAngle * gears[i].angle[2]
    /\ Becomes(animate(Cur, dtMs))
    /\ Ghost("frame")

TogglePlay ==
  /\ Becomes(togglePlay(Cur))
  /\ Ghost("togglePlay")

ClickDelete ==
  \E from \in Centers(gears) :
    \E picked \in {handleCanvasPointerUp(handleCanvasPointerDown(Cur, from))} :
      /\ picked.selectedGearId # NoId
      /\ Becomes(deleteSelected(picked))
      /\ Ghost("delete")

NextAnim ==
  \/ Animate
  \/ TogglePlay
  \/ ClickDelete

SpecAnim == InitAnim /\ [][NextAnim]_vars

(* the gear with every field but the angle *)
Still(g) == [g EXCEPT !.angle = ZeroAngle]

(* C33: an animation frame leaves the collection's membership and order     *)
(* and every field of every gear but the angle; it changes the angle only   *)
(* while playing and only of gears with direction # 0 that are not jammed;  *)
(* and no step other than a frame changes the angle of a gear it keeps, so  *)
(* the angle of a jammed or unpowered gear stays and a paused page's frame  *)
(* changes nothing.                                                         *)
C33_FrameTurnsOnlyAngles ==
  [][/\ lastOp'.op = "frame" =>
          /\ Len(gears') = Len(gears)
          /\ \A i \in DOMAIN gears :
               /\ Still(gears'[i]) = Still(gears[i])
               /\ gears'[i].angle # gears[i].angle =>
                    /\ playing
                    /\ gears[i].direction # 0
                    /\ ~gears[i].jammed
          /\ ~playing => gears' = gears
     /\ lastOp'.op # "frame" =>
          \A i \in DOMAIN gears : \A j \in DOMAIN gears' :
            gears'[j].id = gears[i].id => gears'[j].angle = gears[i].angle
    ]_vars

(* a frame has turned a spinning gear while the page plays and has left a   *)
(* jammed gear of the collection at angle 0                                 *)
C33_Witness ==
  /\ lastOp.op = "frame"
  /\ playing
  /\ \E i, j \in DOMAIN gears :
       /\ gears[i].jammed /\ gears[i].angle = ZeroAngle
       /\ gears[j].direction # 0 /\ gears[j].angle # ZeroAngle

(* ------------------------------------------------------------------------ *)
(* the pointer-up handlers ran in the step *)
IsPointerUp ==
  lastOp'.op \in {"add", "addRejected", "move", "moveRejected", "moveDetached"}

(* positions of gears whose center the step changed *)
MovedBy == { i \in DOMAIN gears :
               i \in DOMAIN gears' /\ Structural(gears'[i]) # Structural(gears[i]) }

(* C34: pointer-down (on the canvas or a palette item) and pointer-move      *)
(* leave the collection as it is; a pointer-up, delivered to the canvas     *)
(* handler and then to the page handler, adds at most one gear or changes   *)
(* the center of at most one gear, never both, and leaves dragging false    *)
(* and dragGear and dragFromPalette null.                                   *)
C34_DragCommitsOnce ==
  [][/\ lastOp'.op \in {"paletteDown", "canvasDown", "pointerMove"} =>
          gears' = gears
     /\ IsPointerUp =>
          /\ ~dragging' /\ dragGear' = NoId /\ dragFromPalette' = NoId
          /\ Len(gears') \in {Len(gears), Len(gears) + 1}
          /\ Cardinality(MovedBy) <= 1
          /\ Len(gears') = Len(gears) + 1 => MovedBy = {}
          /\ \A i \in MovedBy :
               /\ gears[i].id = dragGear
               /\ [Structural(gears'[i]) EXCEPT !.x = 0, !.y = 0]
                    = [Structural(gears[i]) EXCEPT !.x = 0, !.y = 0]
    ]_vars

(* a pointer-up has put a dragged gear on another center while a second     *)
(* gear of the collection stayed where it was                               *)
C34_Witness ==
  /\ lastOp.op = "move"
  /\ ~dragging
  /\ Len(gears) = 2
  /\ selectedGearId # NoId
  /\ \E i \in DOMAIN gears :
       /\ gears[i].id = selectedGearId
       /\ gears[i].direction # 0
       /\ <<gears[i].x, gears[i].y>> = <<120, 167>>

(* ------------------------------------------------------------------------ *)
(* C35: after propagateMotion every gear has a direction of -1, 0 or +1     *)
(* and an rpm that is not negative, and it turns exactly when it is         *)
(* powered and not jammed: a gear with a path of mesh and axle links to a   *)
(* motor whose component is not jammed has direction -1 or +1 and rpm > 0,  *)
(* and every other gear has direction 0 and rpm 0.                          *)
C35_SpinsIffPoweredUnjammed ==
  phase = "idle" =>
    \A i \in DOMAIN gears :
      /\ gears[i].direction \in {-1, 0, 1}
      /\ gears[i].rpm[1] >= 0 /\ gears[i].rpm[2] > 0
      /\ IF Powered(gears, i) /\ ~gears[i].jammed
         THEN gears[i].direction \in {-1, 1} /\ gears[i].rpm[1] > 0
         ELSE gears[i].direction = 0 /\ gears[i].rpm = ZeroRpm

(* propagation has left a pair turning against each other and a gear        *)
(* without a motor in one collection                                        *)
C35_Witness ==
  /\ phase = "idle"
  /\ lastOp.op = "propagate"
  /\ \E i, j, k \in DOMAIN gears :
       /\ gears[i].direction = 1 /\ gears[i].rpm[1] > 0
       /\ gears[j].direction = -1 /\ gears[j].rpm[1] > 0
       /\ ~Powered(gears, k) /\ gears[k].direction = 0

(* ------------------------------------------------------------------------ *)
(* C36: in every state the pointer handlers, the Delete and Clear buttons   *)
(* and the level buttons reach, in any order, selectedGearId is null or     *)
(* the id of a gear of the collection whose level is activeLevel.           *)
C36_SelectionOnActiveLevel ==
  \/ selectedGearId = NoId
  \/ \E i \in DOMAIN gears :
       gears[i].id = selectedGearId /\ gears[i].level = activeLevel

(* a gear added on level 2 is selected while a gear of level 1 is in the    *)
(* collection                                                               *)
C36_Witness ==
  /\ lastOp.op = "add"
  /\ activeLevel = 2
  /\ Len(gears) = 2
  /\ gears[1].level = 1
  /\ gears[2].level = 2
  /\ selectedGearId = gears[2].id

(* ------------------------------------------------------------------------ *)
(* C37: in every state adds, moves, deletes and clears reach, the ids of    *)
(* the gears of the collection are pairwise distinct and each is less than  *)
(* nextId, so a map keyed by id has exactly one entry per gear.             *)
C37_IdsDistinctBelowNextId ==
  /\ \A i, j \in DOMAIN gears : i # j => gears[i].id # gears[j].id
  /\ \A i \in DOMAIN gears : gears[i].id < nextId
  /\ Cardinality({gears[i].id : i \in DOMAIN gears}) = Len(gears)

(* two gears were added after a clear that followed the gear of id 3 *)
C37_Witness ==
  /\ lastOp.op = "add"
  /\ lastOp.top = 3
  /\ Len(gears) = 2
  /\ nextId = 3

(* ------------------------------------------------------------------------ *)
(* Block Blast: placements between a line's completion and its clear.       *)
(* the rows and columns the step completed: full after it, not before       *)
NewLines ==
  Cardinality(rowsToClear(board') \ rowsToClear(board))
    + Cardinality(colsToClear(board') \ colsToClear(board))

(* C38: a completed row or column adds its line bonus to the score once: a  *)
(* placement scores its cells and the bonus of the lines it completed, and  *)
(* the callback of the 300 ms clear timer, which completes no line, scores  *)
(* nothing, also when a placement is made while a line awaits its clear.    *)
C38_LineBonusOnce ==
  [][/\ (IsPlacement /\ AskedFits) =>
          score' = score + Cardinality(AskedCells) + LineScore(NewLines)
     /\ lastPlay'.op = "clear" => score' = score]_vars

(* SpecRace and SpecFull: drops of pieces and timer callbacks in any order  *)
(* from a new game, on the cells of two rows (two 1x4 pieces complete a     *)
(* row) and on the third cell of every row (eight 1x4 pieces complete four  *)
(* columns and leave no room for a ninth before the columns are cleared;    *)
(* there only 1x4 pieces are dropped).                                      *)
MaxRaceScore == 44

MaxFullScore == 28

RaceCells == {<<0, 0>>, <<0, 4>>, <<2, 0>>, <<2, 4>>}

FullCells == {<<r, 2>> : r \in Idx}

AnyShape == {SHAPES[k] : k \in DOMAIN SHAPES}

(* a drag of a piece of one of the shapes onto one of the cells:            *)
(* pointer-down, pointer-move, pointer-up                                   *)
DropOn(cells, shapes, maxScore) ==
  \E i \in Slots, at \in cells :
    /\ score <= maxScore
    /\ PieceAt(BlastCur, i).shape \in shapes
    /\ BlastBecomes(handlePointerUp(
         handlePointerMove(handlePiecePointerDown(BlastCur, i), at)))
    /\ Played("drop", i, at)
    /\ UNCHANGED gearVars

NextRace == DropOn(RaceCells, AnyShape, MaxRaceScore) \/ FireTimer

SpecRace == InitBlast /\ [][NextRace]_vars

NextFull == DropOn(FullCells, {SHAPES[4]}, MaxFullScore) \/ FireTimer

SpecFull == InitBlast /\ [][NextFull]_vars

(* C39: a filled cell is emptied only by resetGame or by a line clear that  *)
(* finds the cell's row or column completely filled when it empties the     *)
(* cells; a placed piece is not erased while neither its row nor its        *)
(* column is full.                                                          *)
C39_OnlyFullLinesCleared ==
  [][lastPlay'.op # "reset" =>
       \A r \in Idx, c \in Idx :
         (board[r][c] # null /\ board'[r][c] = null) =>
           /\ lastPlay'.op = "clear"
           /\ r \in rowsToClear(board) \/ c \in colsToClear(board)]_vars

(* C40: gameOver becomes true only when none of the pieces left in the      *)
(* slots can be placed anywhere on the board as it is at that moment; a     *)
(* placement that completes lines whose clear frees room for a piece left   *)
(* does not end the game.                                                   *)
C40_GameOverOnlyWhenStuck ==
  [][(~gameOver /\ gameOver') =>
       ~canAnyPieceFit([board |-> board', pieces |-> pieces'])]_vars

====
